---- MODULE Spec2Model ----
(***************************************************************************)
(* DevVisionFlow file transfer: one FileTransmitter worker                 *)
(* (sender/network/transmitter.py) talking to one FileListener connection  *)
(* handler (receiver/network/listener.py) over a TCP connection.           *)
(*                                                                         *)
(* The connection is two FIFO queues of whole frames (c2s, s2c).  TCP      *)
(* neither loses nor reorders; what the environment may do is delay a      *)
(* frame past the reader's socket timeout, flip a byte of a CHUNK payload  *)
(* in transit (scenario S6), refuse the connection, and fail or swallow a  *)
(* write to a connection whose peer has closed.  Reads are modelled at the *)
(* granularity of frames: a timeout leaves no partial frame behind.        *)
(*                                                                         *)
(* Specifications:                                                         *)
(*   Spec          one transfer, with timeouts, corruption and cancel      *)
(*   SpecRetry     one transfer whose only failures are ACK timeouts on    *)
(*                 attempts before the last                                *)
(*   SpecEncrypted one transfer under every setting of encryption_enabled  *)
(*                 and of CRYPTO_AVAILABLE                                 *)
(*   SpecCaller    the thread calling start_transfer, cancel and           *)
(*                 get_latest_progress, over successive transfers          *)
(*   SpecListener  the listener fed frames in any order by a client that   *)
(*                 is not the FileTransmitter, over receive directories    *)
(*                 that already hold files                                 *)
(*   SpecPeer      the listener fed HANDSHAKE and FILE_META payloads that  *)
(*                 lack fields, carry more, or name paths                  *)
(*   SpecHandlers  the handlers of concurrent connections, statement by    *)
(*                 statement through the FILE_META branch                  *)
(*   SpecStop      FileListener.start and stop against the accept thread,  *)
(*                 statement by statement, with peers connecting           *)
(*   SpecProtocol  the functions of shared/protocol.py on bytes: one call  *)
(*                 that builds, then one that parses                       *)
(*   SpecGesture   the state machine of the GestureEngine under confirmed  *)
(*                 gestures and transfer notifications                     *)
(*   SpecEngine    GestureEngine.update frame by frame: hysteresis,        *)
(*                 cooldowns and the reset from SEND_COMPLETE, with the    *)
(*                 clock advancing between frames                          *)
(*   SpecRestart   SpecCaller with every start_transfer logged with the    *)
(*                 snapshots put and the polls made before it              *)
(*   SpecCancel    start_transfer and cancel called at any time, also      *)
(*                 with no worker alive                                    *)
(*   SpecApp       the main loop of SenderApp: update, the gesture         *)
(*                 callback, _poll_transfer and the rendering, against     *)
(*                 the worker and the listener                             *)
(***************************************************************************)
EXTENDS Integers, Sequences, FiniteSets, TLC

(* ---------------- bounds of the model ---------------- *)
MaxFileSize == 2
MaxChunkSize == 2
MaxCorrupt == 1
MaxConns == 2
MaxFrames == 3
MaxStartCalls == 3
MaxPolls == 2
MaxGestures == 3
MaxPayloadLen == 2
MaxUpdates == 3
MaxHysteresis == 2
MaxLoops == 5

(* ---------------- shared/constants.py ---------------- *)
MSG_HANDSHAKE == 1
MSG_FILE_META == 2
MSG_CHUNK == 3
MSG_ACK == 4
MSG_ERROR == 5
MSG_DONE == 6
MAX_RETRIES == 3
LARGE_FILE_CHUNK_SIZE == 262144
LARGE_FILE_THRESHOLD == 1073741824
STATE_IDLE == "IDLE"
STATE_BROWSING == "BROWSING"
STATE_FILE_SELECTED == "FILE_SELECTED"
STATE_CONFIRMING_SEND == "CONFIRMING_SEND"
STATE_SENDING == "SENDING"
STATE_SEND_COMPLETE == "SEND_COMPLETE"
GESTURE_OPEN_PALM == "Open Palm"
GESTURE_SWIPE_LEFT == "Swipe Left"
GESTURE_SWIPE_RIGHT == "Swipe Right"
GESTURE_PINCH == "Pinch"
GESTURE_FIST == "Fist"
GESTURE_TWO_FINGER == "Two Finger Point"
GESTURE_NONE == "None"
\* Times are in tenths of a second: 1.5 s, 0.6 s, 1.0 s, 1.0 s, 0.8 s, 3.0 s.
COOLDOWN_OPEN_PALM == 15
COOLDOWN_SWIPE == 6
COOLDOWN_PINCH == 10
COOLDOWN_FIST == 10
COOLDOWN_TWO_FINGER == 8
DEFAULT_HYSTERESIS_FRAMES == 3
SEND_COMPLETE_RESET_DELAY == 30
MAGIC_NUMBER_FULL == <<0, 0, 222, 15>>
PROTOCOL_VERSION == 2
HEADER_SIZE == 256

VARIABLES
  \* ---- FileTransmitter and its worker's locals
  file,            \* the bytes of the source file (filepath)
  config,          \* SenderConfig: chunk_size, encryption_enabled
  tpc,             \* position of _transfer_worker
  sock,            \* the socket of the worker (of the client, in SpecListener):
                   \* "none", "open", "closed"
  f_pos,           \* read position of the open source file f
  chunk_idx,       \* loop variable of the chunk loop
  raw_data,        \* bytes read from f for the chunk being sent
  chunk_payload,   \* payload built for the chunk being sent
  attempt,         \* loop variable of _send_with_retry
  bytes_sent,
  progress_queue,  \* FileTransmitter.progress_queue
  cancel_event,    \* FileTransmitter._cancel_event
  cancelled_alive, \* history: cancel() was called while the worker spawned
                   \* last was alive
  \* ---- FileListener connection handler
  lpc,             \* "idle" (no connection), "run", "closed"
  file_info,       \* ReceivedFileInfo
  file_handle,     \* "None" or "open"
  dest,            \* bytes of the destination file
  received,        \* on_file_received invocations: <<save_path, mime_type>>
  \* ---- the connection
  c2s,             \* frames in flight, transmitter -> listener
  s2c,             \* frames in flight, listener -> transmitter
  corrupted,       \* bytes changed in transit so far
  \* ---- history (read by the properties only)
  wire,            \* frames handed to sock.sendall by the transmitter, in order
  lsent,           \* replies handed to conn.sendall by the listener, in order
  dest_idx,        \* chunk_index of every chunk appended to dest, in order
  attempts,        \* concluded attempts of _send_with_retry
  last_ack_re,     \* wire position answered by the ACK accepted last (0: none)
  refused,         \* frames _wait_for_ack read that were not ACK, each with
                   \* the number of frames written when it was read
  \* ---- the thread that calls the FileTransmitter (the sender's main loop)
  start_calls,     \* history: one record per call of start_transfer
  glp,             \* position of get_latest_progress, with the number of
                   \* snapshots enqueued so far when it was called
  latest,          \* local `latest` of get_latest_progress
  returned,        \* history: what each call of get_latest_progress returned
  drained,         \* history: snapshots taken off progress_queue so far
  \* ---- SenderApp (sender/main.py)
  mpc,             \* position of SenderApp.run: "off" (not called), "update",
                   \* "callback", "poll", "polling", "render", "drawing"
  callback_gesture, \* the gesture update() passes to _on_gesture
  _connection_status, \* SenderApp._connection_status
  last_drain,      \* history: who called get_latest_progress last, and what
                   \* it returned
  \* ---- the receive directory and the handlers of concurrent connections
  receive_dir,     \* the files of the receive directory: name -> bytes
  handlers,        \* per connection: position, file name, save path
  dropped,         \* history: the file objects a handler let go of without
                   \* close(), and whether their deallocation closed them
  \* ---- GestureEngine (sender/gesture_engine.py)
  _state,          \* GestureEngine._state
  transitions,     \* history: one record per call of _process_transition
  _hysteresis,     \* GestureEngine._hysteresis: gesture -> consecutive detections
  _hysteresis_threshold, \* config.hysteresis_frames
  _cooldowns,      \* GestureEngine._cooldowns: gesture -> time of its last
                   \* confirmation (0 before the first)
  _send_complete_time, \* time of the last notify_transfer_complete (0: none)
  clock,           \* what time.time() returned last
  n_updates,       \* history: the number of calls of update() so far
  last_update,     \* history: what the last call of update() found and did
  streak,          \* history: the frames update() was called with last that
                   \* showed the same thing, and how many they are
  last_call,       \* the method of the engine that was called last ("": none)
  \* ---- one use of shared/protocol.py
  call,            \* the build function called and its arguments
  buf,             \* the bytes it returned, as the reader receives them
  result,          \* what the parse function returned for buf
  outcome,         \* what the listener's read loop did with buf as a header
  ppc,             \* "off", "args", "built", "damaged", "parsed", "handled"
  \* ---- shared/encryption.py
  CRYPTO_AVAILABLE, \* whether the import of the cryptography library succeeded
  _encryption,     \* the EncryptionContext of the FileTransmitter (.sender) and
                   \* of the FileListener (.listener): enabled, _aes_key
  crypt_calls,     \* history: the calls of encrypt_chunk and decrypt_chunk
  \* ---- FileListener.start / stop and the accept thread
  _running,        \* FileListener._running
  _server_socket,  \* FileListener._server_socket: "None" or "socket"
  server_fd,       \* the socket _serve_forever creates: "none" (not created),
                   \* "created", "listening", "closed"
  serve_pc,        \* position of _serve_forever: "unstarted", "socket", "bind",
                   \* "loop", "accept", "done"
  stop_pc,         \* position of stop(): "idle", "close", "join", "returned"
  backlog,         \* connections of peers completed by the listening socket
                   \* and not yet returned by accept()
  accepted         \* connections accept() returned: a handler thread runs

tvars == <<file, config, tpc, sock, f_pos, chunk_idx, raw_data, chunk_payload, attempt,
           bytes_sent, progress_queue, cancel_event, cancelled_alive>>
lvars == <<lpc, file_info, file_handle, dest, received>>
nvars == <<c2s, s2c, corrupted>>
hvars == <<wire, lsent, dest_idx, attempts, last_ack_re, refused>>
mvars == <<mpc, callback_gesture, _connection_status, last_drain>>
avars == <<start_calls, glp, latest, returned, drained, mvars>>
dvars == <<receive_dir, handlers, dropped>>
kvars == <<_hysteresis, _hysteresis_threshold, _cooldowns, _send_complete_time, clock,
           n_updates, last_update, streak, last_call>>
gvars == <<_state, transitions, kvars>>
pvars == <<call, buf, result, outcome, ppc>>
evars == <<CRYPTO_AVAILABLE, _encryption, crypt_calls>>
svars == <<_running, _server_socket, server_fd, serve_pc, stop_pc, backlog, accepted>>
fvars == <<tvars, lvars, nvars, hvars, avars, dvars, evars, svars>>
yvars == <<gvars, pvars, evars, svars>>
xvars == <<avars, dvars, yvars>>
vars == <<tvars, lvars, nvars, hvars, xvars>>

Min(a, b) == IF a < b THEN a ELSE b

\* The source file of size n: byte i has value i, so that a duplicated, lost or
\* reordered chunk changes the content.
FileBytes(n) == [i \in 1..n |-> i]

(* ---------------- shared/protocol.py ---------------- *)

\* hashlib.sha256(payload).digest(): collision-free on the payloads of the model.
SHA256(payload) == <<"sha256", payload>>

build_header(message_type, payload) ==
  [message_type |-> message_type, payload_hash |-> SHA256(payload)]

\* The digest is not compared.
validate_payload_Unchecked(hdr, payload) == TRUE

validate_payload(hdr, payload) == SHA256(payload) = hdr.payload_hash

build_handshake_payload(sender_id, encryption_enabled) ==
  [sender_id |-> sender_id, encryption |-> encryption_enabled]

build_file_meta_payload(filename, file_size, mime_type, chunk_count, chunk_size) ==
  [filename |-> filename, file_size |-> file_size, mime_type |-> mime_type,
   chunk_count |-> chunk_count, chunk_size |-> chunk_size]

build_chunk_payload(chunk_index, data) == [chunk_index |-> chunk_index, data |-> data]

build_ack_payload(success, message) == [success |-> success, message |-> message]

build_error_payload(error_code, reason) == [error_code |-> error_code, reason |-> reason]

build_done_payload == [status |-> "complete"]

\* dict.get(key, default) on a parsed JSON object
Get(d, key, default) == IF key \in DOMAIN d THEN d[key] ELSE default

(* ---------------- shared/encryption.py ---------------- *)
\* EncryptionContext.__init__, available being CRYPTO_AVAILABLE: no key yet.
EncryptionContext(enabled, available) ==
  [enabled |-> enabled /\ available, _aes_key |-> ""]

\* derive_shared_key: the key both ends derive from the exchanged public keys.
derive_shared_key == "shared"

\* EncryptionContext.complete_handshake.  Nothing in src/ calls it.
complete_handshake(ctx) ==
  IF ~ctx.enabled THEN ctx ELSE [ctx EXCEPT !._aes_key = derive_shared_key]

\* AESGCM(aes_key) raises ValueError unless the key has 128, 192 or 256 bits.
InvalidKey == "AESGCM key must be 128, 192, or 256 bits."

\* encrypt and decrypt raise: the session is enabled and its key is still b"".
CryptRaises(ctx) == ctx.enabled /\ ctx._aes_key = ""

\* encrypt_chunk: nonce || ciphertext || tag, and decrypt_chunk, its inverse
encrypt_chunk(aes_key, plaintext) ==
  <<170>> \o [i \in 1..Len(plaintext) |-> (plaintext[i] + 1) % 256] \o <<171>>

decrypt_chunk(aes_key, data) ==
  [i \in 1..(Len(data) - 2) |-> (data[i + 1] + 255) % 256]

\* EncryptionContext.encrypt / decrypt: the identity when the session is not
\* enabled.
Encrypt(ctx, data) == IF ~ctx.enabled THEN data ELSE encrypt_chunk(ctx._aes_key, data)
Decrypt(ctx, data) == IF ~ctx.enabled THEN data ELSE decrypt_chunk(ctx._aes_key, data)

(* ---------------- the receive directory ---------------- *)

\* The connections the listener accepts.
Conns == 1..MaxConns

\* Python's None
None == [none |-> TRUE]

EmptyDir == [f \in {} |-> <<>>]

\* PurePath.stem and PurePath.suffix on the file names of the model
stem(filename) ==
  CASE filename \in {"file.txt", "../file.txt", "/tmp/file.txt"} -> "file"
    [] filename = "file_1.txt" -> "file_1"
    [] filename = "file_2.txt" -> "file_2"
    [] filename = "notes" -> "notes"
    [] OTHER -> filename

suffix(filename) ==
  IF filename \in {"file.txt", "file_1.txt", "file_2.txt", "../file.txt", "/tmp/file.txt"}
    THEN ".txt" ELSE ""

\* target.exists()
exists(dir, target) == target \in DOMAIN dir

\* f"{stem}_{counter}{suffix}"
Candidate(filename, counter) ==
  stem(filename) \o "_" \o ToString(counter) \o suffix(filename)

RECURSIVE UniqueFrom(_, _, _)
\* `while target.exists(): target = ...; counter += 1`, target being the
\* candidate of counter - 1
UniqueFrom(dir, filename, counter) ==
  IF exists(dir, Candidate(filename, counter))
    THEN UniqueFrom(dir, filename, counter + 1)
    ELSE Candidate(filename, counter)

\* The counter starts at 2.
_unique_path_FromTwo(dir, filename) ==
  IF ~exists(dir, filename) THEN filename ELSE UniqueFrom(dir, filename, 2)

\* FileListener._unique_path, paths being relative to the receive directory
_unique_path(dir, filename) ==
  IF ~exists(dir, filename) THEN filename ELSE UniqueFrom(dir, filename, 1)

\* open(save_path, "wb"): the file is created, or truncated when it exists.
OpenWb(dir, save_path) ==
  [f \in DOMAIN dir \cup {save_path} |-> IF f = save_path THEN <<>> ELSE dir[f]]

(* ---------------- sender/network/transmitter.py ---------------- *)

TransferProgress(cs, tc, bs, tb, done, error) ==
  [chunks_sent |-> cs, total_chunks |-> tc, bytes_sent |-> bs, total_bytes |-> tb,
   done |-> done, error |-> error]

\* The error snapshot also says done.
ErrorProgress_Done(error) == TransferProgress(0, 0, 0, 0, TRUE, error)

\* TransferProgress(error=...): the other fields take their defaults.
ErrorProgress(error) == TransferProgress(0, 0, 0, 0, FALSE, error)

file_size == Len(file)

chunk_size ==
  IF file_size >= LARGE_FILE_THRESHOLD THEN LARGE_FILE_CHUNK_SIZE ELSE config.chunk_size

\* The ceiling alone: no chunk for an empty file.
total_chunks_Ceil == (file_size + chunk_size - 1) \div chunk_size

\* math.ceil(file_size / chunk_size) if file_size > 0 else 1
total_chunks ==
  IF file_size > 0 THEN (file_size + chunk_size - 1) \div chunk_size ELSE 1

\* The state after FileTransmitter(config) and FileListener(config) were
\* constructed, for a source file of one of the sizes, a configured chunk
\* size among chunk_sizes, and a receive directory among dirs.
Base(sizes, chunk_sizes, dirs, flags) ==
  /\ file \in {FileBytes(n) : n \in sizes}
  /\ config \in [chunk_size : chunk_sizes, encryption_enabled : flags]
  /\ tpc = "idle"
  /\ sock = "none"
  /\ f_pos = 0
  /\ chunk_idx = 0
  /\ raw_data = <<>>
  /\ chunk_payload = build_chunk_payload(0, <<>>)
  /\ attempt = 0
  /\ bytes_sent = 0
  /\ progress_queue = <<>>
  /\ cancel_event = FALSE
  /\ cancelled_alive = FALSE
  /\ lpc = "idle"
  /\ file_info = [chunk_count |-> 0, chunk_size |-> 0, file_size |-> 0,
                  chunks_received |-> 0, mime_type |-> "", save_path |-> ""]
  /\ file_handle = "None"
  /\ dest = <<>>
  /\ received = <<>>
  /\ c2s = <<>>
  /\ s2c = <<>>
  /\ corrupted = 0
  /\ wire = <<>>
  /\ lsent = <<>>
  /\ dest_idx = <<>>
  /\ attempts = <<>>
  /\ last_ack_re = 0
  /\ refused = <<>>
  /\ start_calls = <<>>
  /\ glp = [pc |-> "idle", enqueued |-> 0]
  /\ latest = None
  /\ returned = <<>>
  /\ drained = 0
  /\ mpc = "off"
  /\ callback_gesture = ""
  /\ _connection_status = "disconnected"
  /\ last_drain = None
  /\ receive_dir \in dirs
  /\ handlers = [c \in Conns |-> [pc |-> "idle", filename |-> "", save_path |-> ""]]
  /\ dropped = <<>>

\* The keys of GestureEngine._cooldowns and _hysteresis.
Counted == {GESTURE_OPEN_PALM, GESTURE_SWIPE_LEFT, GESTURE_SWIPE_RIGHT, GESTURE_PINCH,
            GESTURE_FIST, GESTURE_TWO_FINGER}

\* time.time() when the engine is constructed: later than every cooldown and
\* than SEND_COMPLETE_RESET_DELAY after 0.
Epoch == 100

\* GestureEngine.__init__, for config.hysteresis_frames among thresholds.
Engine(thresholds) ==
  /\ _state = STATE_IDLE
  /\ transitions = <<>>
  /\ _hysteresis = [g \in Counted |-> 0]
  /\ _hysteresis_threshold \in thresholds
  /\ _cooldowns = [g \in Counted |-> 0]
  /\ _send_complete_time = 0
  /\ clock = Epoch
  /\ n_updates = 0
  /\ last_update = None
  /\ streak = [landmarks |-> "", frames |-> 0]
  /\ last_call = ""

\* GestureEngine.__init__ with the default configuration.
EngineInit == Engine({DEFAULT_HYSTERESIS_FRAMES})

\* No function of shared/protocol.py is followed on bytes.
NoCall ==
  /\ call = None
  /\ buf = <<>>
  /\ result = None
  /\ outcome = None
  /\ ppc = "off"

\* FileTransmitter.__init__ and FileListener.__init__ construct their
\* EncryptionContext: receiver_flags are the values of
\* ReceiverConfig.encryption_enabled, backends those of CRYPTO_AVAILABLE.
Sessions(receiver_flags, backends) ==
  /\ CRYPTO_AVAILABLE \in backends
  /\ \E flag \in receiver_flags :
        _encryption = [sender |-> EncryptionContext(config.encryption_enabled,
                                                   CRYPTO_AVAILABLE),
                       listener |-> EncryptionContext(flag, CRYPTO_AVAILABLE)]
  /\ crypt_calls = <<>>

\* The call of encrypt_chunk or decrypt_chunk that ctx.encrypt / ctx.decrypt
\* makes, if it makes one.
Logged(ctx, side) ==
  IF ctx.enabled THEN Append(crypt_calls, [side |-> side, _aes_key |-> ctx._aes_key])
  ELSE crypt_calls

\* FileListener.__init__: not started.
Constructed ==
  /\ _running = FALSE
  /\ _server_socket = "None"
  /\ server_fd = "none"
  /\ serve_pc = "unstarted"
  /\ stop_pc = "idle"
  /\ backlog = {}
  /\ accepted = {}

\* start() was called and the accept thread waits in accept().
Serving ==
  /\ _running = TRUE
  /\ _server_socket = "socket"
  /\ server_fd = "listening"
  /\ serve_pc = "accept"
  /\ stop_pc = "idle"
  /\ backlog = {}
  /\ accepted = {}

\* Encryption is off in both configurations (the default); the listener is
\* serving.
Start(sizes, chunk_sizes, dirs) ==
  /\ Base(sizes, chunk_sizes, dirs, {FALSE})
  /\ Sessions({FALSE}, {TRUE})
  /\ Serving
  /\ EngineInit
  /\ NoCall

\* The receive directory is empty when the listener starts.
Init == Start(0..MaxFileSize, 1..MaxChunkSize, {EmptyDir})

\* start_transfer leaves the flag as it finds it.
_cancel_event_clear_Skipped == cancel_event' = cancel_event

\* self._cancel_event.clear()
_cancel_event_clear == cancel_event' = FALSE

\* is_transferring without the is_alive() test: a thread was once started.
is_transferring_NoAliveCheck == tpc # "idle"

\* self._thread is not None and self._thread.is_alive()
is_transferring == tpc \notin {"idle", "finished"}

\* _send_message: header + payload handed to sock.sendall.  A write to a
\* connection the peer has closed is either swallowed by the local stack or
\* raises BrokenPipeError / ConnectionResetError (raised = TRUE).
SendRaises == IF lpc = "closed" THEN BOOLEAN ELSE {FALSE}

_send_message(message_type, payload) ==
  LET frame == [hdr |-> build_header(message_type, payload), payload |-> payload,
                seq |-> Len(wire) + 1]
  IN /\ wire' = Append(wire, frame)
     /\ c2s' = IF lpc = "closed" THEN c2s ELSE Append(c2s, frame)

\* _wait_for_ack on a frame that was read: "" when it is an ACK with
\* success = true, else the message of the ConnectionError raised.
AckError(m) ==
  IF m.message_type = MSG_ERROR
    THEN "Receiver error: " \o Get(m.payload, "reason", "unknown")
  ELSE IF m.message_type # MSG_ACK
    THEN "Expected ACK, got message type " \o ToString(m.message_type)
  ELSE IF ~Get(m.payload, "success", FALSE)
    THEN "Receiver NACK: " \o Get(m.payload, "message", "")
  ELSE ""

\* The ways _wait_for_ack can end: it reads the next frame of the stream; or
\* recv times out (socket.timeout) because no frame arrived in time; or recv
\* returns b"" because the peer closed and nothing is left to read.
RecvOutcomes(canTimeout) ==
  {[exc |-> AckError(Head(s2c)), consumed |-> TRUE] : x \in IF s2c # <<>> THEN {1} ELSE {}}
  \cup {[exc |-> "timed out", consumed |-> FALSE] : x \in IF canTimeout THEN {1} ELSE {}}
  \cup {[exc |-> "Connection closed while reading", consumed |-> FALSE] :
          x \in IF s2c = <<>> /\ lpc = "closed" THEN {1} ELSE {}}

Consume(o) ==
  /\ s2c' = IF o.consumed THEN Tail(s2c) ELSE s2c
  /\ last_ack_re' = IF o.consumed /\ o.exc = "" THEN Head(s2c).re ELSE last_ack_re
  /\ refused' = IF o.consumed /\ Head(s2c).message_type # MSG_ACK
                  THEN Append(refused, [frame |-> Head(s2c), written |-> Len(wire)])
                  ELSE refused

\* The worker ends on an exception without putting a snapshot.
Fatal_Silent(exc) ==
  /\ progress_queue' = progress_queue
  /\ sock' = "closed"
  /\ tpc' = "finished"

\* The socket is left open when the worker ends on an exception.
Fatal_SocketLeft(exc) ==
  /\ progress_queue' = Append(progress_queue, ErrorProgress(exc))
  /\ sock' = "open"
  /\ tpc' = "finished"

\* except Exception: put TransferProgress(error=str(exc)); finally: sock.close()
Fatal(exc) ==
  /\ progress_queue' = Append(progress_queue, ErrorProgress(exc))
  /\ sock' = "closed"
  /\ tpc' = "finished"

\* start_transfer: spawns the worker unless one is alive.  The model follows
\* one transfer of the transmitter.
StartTransfer ==
  /\ ~is_transferring
  /\ tpc = "idle"
  /\ _cancel_event_clear
  /\ cancelled_alive' = FALSE
  /\ tpc' = "connect"
  /\ UNCHANGED <<file, config, sock, f_pos, chunk_idx, raw_data, chunk_payload, attempt,
                 bytes_sent, progress_queue>>
  /\ UNCHANGED <<lvars, nvars, hvars>>
  /\ UNCHANGED xvars

\* cancel(), called while a worker is alive and the flag is not yet set.
Cancel ==
  /\ is_transferring
  /\ ~cancel_event
  /\ cancel_event' = TRUE
  /\ cancelled_alive' = TRUE
  /\ UNCHANGED <<file, config, tpc, sock, f_pos, chunk_idx, raw_data, chunk_payload,
                 attempt, bytes_sent, progress_queue>>
  /\ UNCHANGED <<lvars, nvars, hvars>>
  /\ UNCHANGED xvars

\* sock.connect succeeds: the accept loop hands the stream to a new handler.
TConnect ==
  /\ tpc = "connect"
  /\ sock' = "open"
  /\ lpc' = "run"
  /\ tpc' = "send_handshake"
  /\ UNCHANGED <<file, config, f_pos, chunk_idx, raw_data, chunk_payload, attempt,
                 bytes_sent, progress_queue, cancel_event, cancelled_alive>>
  /\ UNCHANGED <<file_info, file_handle, dest, received, nvars, hvars>>
  /\ UNCHANGED xvars

\* sock.connect raises (no listener): the socket object exists and is closed.
TConnectRefused ==
  /\ tpc = "connect"
  /\ Fatal("[Errno 111] Connection refused")
  /\ UNCHANGED <<file, config, f_pos, chunk_idx, raw_data, chunk_payload, attempt,
                 bytes_sent, cancel_event, cancelled_alive>>
  /\ UNCHANGED <<lvars, nvars, hvars>>
  /\ UNCHANGED xvars

\* filepath.stat() raises (the file was removed or cannot be reached): the
\* except clause puts the error; no socket was created, finally closes nothing.
TStatRaises ==
  /\ tpc = "connect"
  /\ progress_queue' =
       Append(progress_queue, ErrorProgress("[Errno 2] No such file or directory"))
  /\ tpc' = "finished"
  /\ UNCHANGED <<file, config, sock, f_pos, chunk_idx, raw_data, chunk_payload, attempt,
                 bytes_sent, cancel_event, cancelled_alive>>
  /\ UNCHANGED <<lvars, nvars, hvars>>
  /\ UNCHANGED xvars

\* open(filepath, "rb") raises after FILE_META was ACKed (the file was removed
\* or is not readable).
TOpenRaises ==
  /\ tpc = "chunk_loop"
  /\ chunk_idx = 0
  /\ f_pos = 0
  /\ Fatal("[Errno 13] Permission denied")
  /\ UNCHANGED <<file, config, f_pos, chunk_idx, raw_data, chunk_payload, attempt,
                 bytes_sent, cancel_event, cancelled_alive>>
  /\ UNCHANGED <<lvars, nvars, hvars>>
  /\ UNCHANGED xvars

\* A frame sent once, outside the retry loop (HANDSHAKE, FILE_META, DONE).
SendOnce(at, message_type, payload, next) ==
  /\ tpc = at
  /\ _send_message(message_type, payload)
  /\ \E raised \in SendRaises :
       IF raised
         THEN Fatal("[Errno 32] Broken pipe")
         ELSE tpc' = next /\ UNCHANGED <<sock, progress_queue>>
  /\ UNCHANGED <<file, config, f_pos, chunk_idx, raw_data, chunk_payload, attempt,
                 bytes_sent, cancel_event, cancelled_alive>>
  /\ UNCHANGED <<lvars, s2c, corrupted, lsent, dest_idx, attempts, last_ack_re, refused>>
  /\ UNCHANGED xvars

\* _wait_for_ack outside the retry loop: every failure is fatal.
AwaitOnce(at, next, canTimeout) ==
  /\ tpc = at
  /\ \E o \in RecvOutcomes(canTimeout) :
       /\ Consume(o)
       /\ IF o.exc = ""
            THEN tpc' = next /\ UNCHANGED <<sock, progress_queue>>
            ELSE Fatal(o.exc)
  /\ UNCHANGED <<file, config, f_pos, chunk_idx, raw_data, chunk_payload, attempt,
                 bytes_sent, cancel_event, cancelled_alive>>
  /\ UNCHANGED <<lvars, c2s, corrupted, wire, lsent, dest_idx, attempts>>
  /\ UNCHANGED xvars

TSendHandshake ==
  SendOnce("send_handshake", MSG_HANDSHAKE,
           build_handshake_payload("sender", config.encryption_enabled), "ack_handshake")

TAckHandshake == AwaitOnce("ack_handshake", "send_meta", TRUE)

TSendFileMeta ==
  SendOnce("send_meta", MSG_FILE_META,
           build_file_meta_payload("file.txt", file_size, "text/plain", total_chunks,
                                   chunk_size),
           "ack_meta")

TAckFileMeta == AwaitOnce("ack_meta", "chunk_loop", TRUE)

\* One pass through the head of `for chunk_idx in range(total_chunks)`: the
\* cancellation check, f.read(chunk_size), encrypt, build_chunk_payload.
TChunkLoop ==
  /\ tpc = "chunk_loop"
  /\ IF chunk_idx >= total_chunks
       THEN /\ tpc' = "send_done"
            /\ UNCHANGED <<sock, f_pos, raw_data, chunk_payload, attempt, progress_queue>>
     ELSE IF cancel_event
       THEN /\ progress_queue' = Append(progress_queue, ErrorProgress("Cancelled by user"))
            /\ sock' = "closed"
            /\ tpc' = "finished"
            /\ UNCHANGED <<f_pos, raw_data, chunk_payload, attempt>>
     ELSE LET data == SubSeq(file, f_pos + 1, Min(f_pos + chunk_size, file_size))
          IN IF data = <<>>
               THEN /\ tpc' = "send_done"
                    /\ UNCHANGED <<sock, f_pos, raw_data, chunk_payload, attempt,
                                   progress_queue>>
             ELSE IF CryptRaises(_encryption.sender)
               THEN /\ raw_data' = data
                    /\ f_pos' = f_pos + Len(data)
                    /\ Fatal(InvalidKey)
                    /\ UNCHANGED <<chunk_payload, attempt>>
               ELSE /\ raw_data' = data
                    /\ f_pos' = f_pos + Len(data)
                    /\ chunk_payload' =
                         build_chunk_payload(chunk_idx, Encrypt(_encryption.sender, data))
                    /\ attempt' = 0
                    /\ tpc' = "send_chunk"
                    /\ UNCHANGED <<sock, progress_queue>>
  /\ crypt_calls' =
       IF chunk_idx < total_chunks /\ ~cancel_event /\ f_pos < file_size
         THEN Logged(_encryption.sender, "sender")
         ELSE crypt_calls
  /\ UNCHANGED <<file, config, chunk_idx, bytes_sent, cancel_event, cancelled_alive>>
  /\ UNCHANGED <<lvars, nvars, hvars>>
  /\ UNCHANGED <<avars, dvars, gvars, pvars, svars, CRYPTO_AVAILABLE, _encryption>>

\* An off-by-one in the retry bound: a fourth attempt is made.
LastAttempt_OffByOne(a) == a = MAX_RETRIES

\* `if attempt == MAX_RETRIES - 1: raise`
LastAttempt(a) == a = MAX_RETRIES - 1

\* The progress snapshot is put for every attempt, failed ones included.
AttemptFailed_Progress(exc) ==
  /\ attempts' = Append(attempts, [chunk_index |-> chunk_idx, attempt |-> attempt,
                                   exc |-> exc])
  /\ IF LastAttempt(attempt)
       THEN Fatal(exc) /\ UNCHANGED attempt
       ELSE /\ attempt' = attempt + 1
            /\ tpc' = "send_chunk"
            /\ progress_queue' =
                 Append(progress_queue,
                        TransferProgress(chunk_idx + 1, total_chunks,
                                         bytes_sent + Len(raw_data), file_size, FALSE, ""))
            /\ UNCHANGED sock
  /\ UNCHANGED <<chunk_idx, bytes_sent>>

\* The except clause of _send_with_retry: attempt `attempt` failed with exc.
AttemptFailed(exc) ==
  /\ attempts' = Append(attempts, [chunk_index |-> chunk_idx, attempt |-> attempt,
                                   exc |-> exc])
  /\ IF LastAttempt(attempt)
       THEN Fatal(exc) /\ UNCHANGED attempt
       ELSE /\ attempt' = attempt + 1
            /\ tpc' = "send_chunk"
            /\ UNCHANGED <<sock, progress_queue>>
  /\ UNCHANGED <<chunk_idx, bytes_sent>>

\* _send_with_retry: self._send_message(sock, MSG_CHUNK, chunk_payload)
TSendChunk ==
  /\ tpc = "send_chunk"
  /\ _send_message(MSG_CHUNK, chunk_payload)
  /\ \E raised \in SendRaises :
       IF raised
         THEN AttemptFailed("[Errno 32] Broken pipe")
         ELSE /\ tpc' = "ack_chunk"
              /\ UNCHANGED <<sock, attempt, progress_queue, attempts, chunk_idx, bytes_sent>>
  /\ UNCHANGED <<file, config, f_pos, raw_data, chunk_payload, cancel_event, cancelled_alive>>
  /\ UNCHANGED <<lvars, s2c, corrupted, lsent, dest_idx, last_ack_re, refused>>
  /\ UNCHANGED xvars

\* _send_with_retry: self._wait_for_ack(sock), then the progress snapshot of
\* the chunk loop when it returns.
AckChunk(canTimeout) ==
  /\ tpc = "ack_chunk"
  /\ \E o \in RecvOutcomes(canTimeout) :
       /\ Consume(o)
       /\ IF o.exc = ""
            THEN /\ attempts' = Append(attempts, [chunk_index |-> chunk_idx,
                                                  attempt |-> attempt, exc |-> ""])
                 /\ bytes_sent' = bytes_sent + Len(raw_data)
                 /\ progress_queue' =
                      Append(progress_queue,
                             TransferProgress(chunk_idx + 1, total_chunks,
                                              bytes_sent + Len(raw_data), file_size,
                                              FALSE, ""))
                 /\ chunk_idx' = chunk_idx + 1
                 /\ tpc' = "chunk_loop"
                 /\ UNCHANGED <<sock, attempt>>
            ELSE AttemptFailed(o.exc)
  /\ UNCHANGED <<file, config, f_pos, raw_data, chunk_payload, cancel_event, cancelled_alive>>
  /\ UNCHANGED <<lvars, c2s, corrupted, wire, lsent, dest_idx>>
  /\ UNCHANGED xvars

TAckChunk == AckChunk(TRUE)

TSendDone == SendOnce("send_done", MSG_DONE, build_done_payload, "ack_done")

\* _wait_for_ack after DONE, then the terminal snapshot; finally: sock.close()
AckDone(canTimeout) ==
  /\ tpc = "ack_done"
  /\ \E o \in RecvOutcomes(canTimeout) :
       /\ Consume(o)
       /\ IF o.exc = ""
            THEN /\ progress_queue' =
                      Append(progress_queue,
                             TransferProgress(total_chunks, total_chunks, file_size,
                                              file_size, TRUE, ""))
                 /\ sock' = "closed"
                 /\ tpc' = "finished"
            ELSE Fatal(o.exc)
  /\ UNCHANGED <<file, config, f_pos, chunk_idx, raw_data, chunk_payload, attempt,
                 bytes_sent, cancel_event, cancelled_alive>>
  /\ UNCHANGED <<lvars, c2s, corrupted, wire, lsent, dest_idx, attempts>>
  /\ UNCHANGED xvars

TAckDone == AckDone(TRUE)

(* ---------------- receiver/network/listener.py ---------------- *)

\* conn.sendall of a reply: when the transmitter has closed its socket the
\* reply is swallowed or the write raises (raised = TRUE).
ReplyRaises == IF sock = "closed" THEN BOOLEAN ELSE {FALSE}

Reply(message_type, payload, frame) ==
  LET m == [message_type |-> message_type, payload |-> payload, re |-> frame.seq]
  IN /\ lsent' = Append(lsent, m)
     /\ s2c' = IF sock = "closed" THEN s2c ELSE Append(s2c, m)

_send_ack(success, message, frame) == Reply(MSG_ACK, build_ack_payload(success, message), frame)

\* The refusal is sent as an ACK with success = false.
_send_error_AsNack(code, reason, frame) ==
  Reply(MSG_ACK, build_ack_payload(FALSE, reason), frame)

_send_error(code, reason, frame) == Reply(MSG_ERROR, build_error_payload(code, reason), frame)

\* The fields the FILE_META branch reads with meta[...], in the order it
\* reads them.
MetaFields == <<"filename", "file_size", "mime_type", "chunk_count", "chunk_size">>

\* The first k reads of the FILE_META branch found their field.
Assigned(meta, k) == \A j \in 1..k : MetaFields[j] \in DOMAIN meta

\* finally: close the file handle if one is open, close the connection.
LFinally ==
  /\ file_handle' = "None"
  /\ lpc' = "closed"

\* One iteration of the `while True` loop of _handle_connection on the next
\* frame of the stream.
LHandle ==
  /\ lpc = "run"
  /\ c2s # <<>>
  /\ LET frame == Head(c2s)
         hdr == frame.hdr
         payload == frame.payload
     IN /\ c2s' = Tail(c2s)
        /\ \E raised \in ReplyRaises :
           IF ~validate_payload(hdr, payload)
             THEN /\ _send_error(1, "Integrity check failed", frame)
                  /\ LFinally
                  /\ UNCHANGED <<file_info, dest, dest_idx, received, receive_dir>>
           ELSE IF hdr.message_type = MSG_HANDSHAKE
             THEN /\ _send_ack(TRUE, "Ready", frame)
                  /\ IF raised THEN LFinally ELSE UNCHANGED <<lpc, file_handle>>
                  /\ UNCHANGED <<file_info, dest, dest_idx, received, receive_dir>>
           ELSE IF hdr.message_type = MSG_FILE_META /\ ~Assigned(payload, 5)
             THEN \* KeyError at the first field the payload lacks
                  /\ file_info' =
                       [file_info EXCEPT
                          !.file_size = IF Assigned(payload, 2) THEN payload.file_size ELSE @,
                          !.mime_type = IF Assigned(payload, 3) THEN payload.mime_type ELSE @,
                          !.chunk_count = IF Assigned(payload, 4) THEN payload.chunk_count
                                          ELSE @]
                  /\ LFinally
                  /\ UNCHANGED <<dest, dest_idx, received, lsent, s2c, receive_dir>>
           ELSE IF hdr.message_type = MSG_FILE_META
             THEN /\ file_info' = [chunk_count |-> payload.chunk_count,
                                   chunk_size |-> payload.chunk_size,
                                   file_size |-> payload.file_size,
                                   chunks_received |-> file_info.chunks_received,
                                   mime_type |-> payload.mime_type,
                                   save_path |-> _unique_path(receive_dir,
                                                              payload.filename)]
                  /\ receive_dir' =
                       OpenWb(receive_dir, _unique_path(receive_dir, payload.filename))
                  /\ dest' = <<>>
                  /\ _send_ack(TRUE, "Metadata accepted", frame)
                  /\ IF raised THEN LFinally ELSE file_handle' = "open" /\ UNCHANGED lpc
                  /\ UNCHANGED <<dest_idx, received>>
           ELSE IF hdr.message_type = MSG_CHUNK /\ CryptRaises(_encryption.listener)
             THEN \* self._encryption.decrypt raises
                  /\ LFinally
                  /\ UNCHANGED <<file_info, dest, dest_idx, received, lsent, s2c,
                                 receive_dir>>
           ELSE IF hdr.message_type = MSG_CHUNK
             THEN IF file_handle = "None"
                    THEN /\ _send_error(2, "No file metadata received", frame)
                         /\ LFinally
                         /\ UNCHANGED <<file_info, dest, dest_idx, received, receive_dir>>
                    ELSE /\ dest' = dest \o Decrypt(_encryption.listener, payload.data)
                         /\ receive_dir' =
                              [receive_dir EXCEPT ![file_info.save_path] =
                                 @ \o Decrypt(_encryption.listener, payload.data)]
                         /\ dest_idx' = Append(dest_idx, payload.chunk_index)
                         /\ file_info' = [file_info EXCEPT !.chunks_received = @ + 1]
                         /\ _send_ack(TRUE, "Chunk " \o ToString(payload.chunk_index) \o " OK",
                                      frame)
                         /\ IF raised THEN LFinally ELSE UNCHANGED <<lpc, file_handle>>
                         /\ UNCHANGED received
           ELSE IF hdr.message_type = MSG_DONE
             THEN /\ _send_ack(TRUE, "File saved", frame)
                  /\ received' = IF raised THEN received
                                 ELSE Append(received, <<file_info.save_path,
                                                         file_info.mime_type>>)
                  /\ LFinally
                  /\ UNCHANGED <<file_info, dest, dest_idx, receive_dir>>
           ELSE /\ LFinally
                /\ UNCHANGED <<file_info, dest, dest_idx, received, lsent, s2c,
                               receive_dir>>
  /\ crypt_calls' =
       IF validate_payload(Head(c2s).hdr, Head(c2s).payload)
            /\ Head(c2s).hdr.message_type = MSG_CHUNK
         THEN Logged(_encryption.listener, "listener")
         ELSE crypt_calls
  \* `file_handle = open(...)` while file_handle holds an open file: the name
  \* is bound to the new file and the old file object loses its last
  \* reference without close().  Reference counting closes it at once; a
  \* collector that does not count references leaves it open.
  /\ \E closed \in BOOLEAN :
        dropped' =
          IF /\ validate_payload(Head(c2s).hdr, Head(c2s).payload)
             /\ Head(c2s).hdr.message_type = MSG_FILE_META
             /\ Assigned(Head(c2s).payload, 5)
             /\ file_handle = "open"
            THEN Append(dropped, [save_path |-> file_info.save_path, closed |-> closed])
            ELSE dropped
  /\ UNCHANGED <<tvars, corrupted, wire, attempts, last_ack_re, refused>>
  /\ UNCHANGED <<avars, gvars, pvars, svars, CRYPTO_AVAILABLE, _encryption, handlers>>

\* _recv_exact: recv returns b"" once the transmitter has closed and every
\* frame it wrote has been read: ConnectionError, then finally.
LPeerClosed ==
  /\ lpc = "run"
  /\ c2s = <<>>
  /\ sock = "closed"
  /\ LFinally
  /\ UNCHANGED <<file_info, dest, received>>
  /\ UNCHANGED <<tvars, nvars, hvars>>
  /\ UNCHANGED xvars

(* ---------------- the network ---------------- *)

\* One flipped byte: never the byte that was sent.
Flip(b) == 255 - b

\* Scenario S6: one byte of the data of a CHUNK payload in flight is flipped;
\* the header, with the digest of the payload as sent, is left alone.
Corrupt ==
  /\ corrupted < MaxCorrupt
  /\ \E i \in 1..Len(c2s) :
       /\ c2s[i].hdr.message_type = MSG_CHUNK
       /\ \E j \in 1..Len(c2s[i].payload.data) :
            c2s' = [c2s EXCEPT ![i].payload.data[j] = Flip(@)]
  /\ corrupted' = corrupted + 1
  /\ UNCHANGED <<tvars, lvars, s2c, hvars>>
  /\ UNCHANGED xvars

\* The same man in the middle rewrites the message-type byte of the header of
\* a reply in flight (the digest covers the payload only, and the transmitter
\* verifies no digest): this is how a frame that is neither ACK nor a genuine
\* ERROR reaches _wait_for_ack.
TamperReply ==
  /\ corrupted < MaxCorrupt
  /\ \E i \in 1..Len(s2c) :
       \E t \in {MSG_ACK, MSG_ERROR, MSG_DONE} \ {s2c[i].message_type} :
          s2c' = [s2c EXCEPT ![i].message_type = t]
  /\ corrupted' = corrupted + 1
  /\ UNCHANGED <<tvars, lvars, c2s, hvars>>
  /\ UNCHANGED xvars

Next ==
  \/ StartTransfer
  \/ Cancel
  \/ TConnect
  \/ TConnectRefused
  \/ TStatRaises
  \/ TSendHandshake
  \/ TAckHandshake
  \/ TSendFileMeta
  \/ TAckFileMeta
  \/ TOpenRaises
  \/ TChunkLoop
  \/ TSendChunk
  \/ TAckChunk
  \/ TSendDone
  \/ TAckDone
  \/ LHandle
  \/ LPeerClosed
  \/ Corrupt
  \/ TamperReply

Spec == Init /\ [][Next]_vars

\* One transfer of a one-byte file for every value of the two
\* encryption_enabled settings and of CRYPTO_AVAILABLE.
InitEncrypted ==
  /\ Base({1}, {1}, {EmptyDir}, BOOLEAN)
  /\ Sessions(BOOLEAN, BOOLEAN)
  /\ Serving
  /\ EngineInit
  /\ NoCall

SpecEncrypted == InitEncrypted /\ [][Next]_vars

(* ---------------- the thread that calls the FileTransmitter ---------------- *)

\* start_transfer(filepath), called by the sender's main loop between two
\* polls.  A new worker starts with fresh locals and opens a new connection;
\* the model follows one connection at a time, so the call is made once the
\* handler of the previous connection has ended.
\* The body of start_transfer: nothing if a worker is alive, else the flag is
\* cleared and a worker thread started, with fresh locals and a connection of
\* its own.
SpawnUnlessTransferring ==
  IF is_transferring
    THEN UNCHANGED <<tvars, lvars, nvars, hvars>>
    ELSE /\ _cancel_event_clear
         /\ cancelled_alive' = FALSE
         /\ tpc' = "connect"
         /\ sock' = "none"
         /\ f_pos' = 0
         /\ chunk_idx' = 0
         /\ raw_data' = <<>>
         /\ chunk_payload' = build_chunk_payload(0, <<>>)
         /\ attempt' = 0
         /\ bytes_sent' = 0
         /\ lpc' = "idle"
         /\ file_info' = [chunk_count |-> 0, chunk_size |-> 0, file_size |-> 0,
                          chunks_received |-> 0, mime_type |-> "", save_path |-> ""]
         /\ file_handle' = "None"
         /\ dest' = <<>>
         /\ c2s' = <<>>
         /\ s2c' = <<>>
         /\ wire' = <<>>
         /\ lsent' = <<>>
         /\ dest_idx' = <<>>
         /\ attempts' = <<>>
         /\ last_ack_re' = 0
         /\ refused' = <<>>
         /\ UNCHANGED <<file, config, progress_queue, received, corrupted>>

\* The call is logged as the record `logged`.
StartTransferLogged(logged) ==
  /\ glp.pc = "idle"
  /\ Len(start_calls) < MaxStartCalls
  /\ is_transferring \/ lpc # "run"
  /\ start_calls' = Append(start_calls, logged)
  /\ SpawnUnlessTransferring
  /\ UNCHANGED <<glp, latest, returned, drained, mvars, dvars, yvars>>

start_transfer ==
  StartTransferLogged([ended |-> tpc = "finished", spawned |-> ~is_transferring])

\* start_transfer, logged with the number of snapshots put and of polls made
\* before the call.
StartTransferAfter ==
  StartTransferLogged([ended |-> tpc = "finished", spawned |-> ~is_transferring,
                       enqueued |-> drained + Len(progress_queue),
                       polls |-> Len(returned)])

\* start_transfer, logged with the cancellation flag as the call found it.
StartTransferFlagged ==
  StartTransferLogged([ended |-> tpc = "finished", spawned |-> ~is_transferring,
                       flag |-> cancel_event])

\* cancel() as the method is: it sets the flag whenever it is called, whether
\* a worker is alive or not (_shutdown calls it without asking).  The caller
\* is the thread that calls start_transfer and get_latest_progress.
cancel ==
  /\ glp.pc = "idle"
  /\ cancel_event' = TRUE
  /\ cancelled_alive' = (cancelled_alive \/ is_transferring)
  /\ UNCHANGED <<file, config, tpc, sock, f_pos, chunk_idx, raw_data, chunk_payload,
                 attempt, bytes_sent, progress_queue>>
  /\ UNCHANGED <<lvars, nvars, hvars>>
  /\ UNCHANGED xvars

\* get_latest_progress is called: latest = None
GetLatestProgress ==
  /\ glp.pc = "idle"
  /\ Len(returned) < MaxPolls
  /\ glp' = [pc |-> "loop", enqueued |-> drained + Len(progress_queue)]
  /\ latest' = None
  /\ UNCHANGED <<tvars, lvars, nvars, hvars, start_calls, returned, drained, mvars, dvars,
                 yvars>>

\* Only the first snapshot taken off the queue is kept.
GetNowait_KeepFirst ==
  /\ glp.pc = "loop"
  /\ progress_queue # <<>>
  /\ latest' = IF latest = None
                 THEN [idx |-> drained + 1, snapshot |-> Head(progress_queue)]
                 ELSE latest
  /\ progress_queue' = Tail(progress_queue)
  /\ drained' = drained + 1
  /\ UNCHANGED <<file, config, tpc, sock, f_pos, chunk_idx, raw_data, chunk_payload,
                 attempt, bytes_sent, cancel_event, cancelled_alive>>
  /\ UNCHANGED <<lvars, nvars, hvars, start_calls, glp, returned, mvars, dvars, yvars>>

\* `while not self.progress_queue.empty(): latest = get_nowait()`, one pass.
\* The snapshot carries its position in the order of all puts.
GetNowait ==
  /\ glp.pc = "loop"
  /\ progress_queue # <<>>
  /\ latest' = [idx |-> drained + 1, snapshot |-> Head(progress_queue)]
  /\ progress_queue' = Tail(progress_queue)
  /\ drained' = drained + 1
  /\ UNCHANGED <<file, config, tpc, sock, f_pos, chunk_idx, raw_data, chunk_payload,
                 attempt, bytes_sent, cancel_event, cancelled_alive>>
  /\ UNCHANGED <<lvars, nvars, hvars, start_calls, glp, returned, mvars, dvars, yvars>>

\* empty() answers True: return latest
ReturnLatest ==
  /\ glp.pc = "loop"
  /\ progress_queue = <<>>
  /\ returned' = Append(returned, [value |-> latest, drained |-> drained,
                                   enqueued |-> glp.enqueued])
  /\ glp' = [glp EXCEPT !.pc = "idle"]
  /\ UNCHANGED <<tvars, lvars, nvars, hvars, start_calls, latest, drained, mvars, dvars,
                 yvars>>

(* ---------------- the listener and an arbitrary client ---------------- *)

\* The files found in the receive directory when the listener starts.
OldNames == {"file.txt", "file_1.txt", "notes"}

\* The content of every file found there; no frame carries this byte.
OldBytes == <<7>>

Dirs == {[f \in S |-> OldBytes] : S \in SUBSET OldNames}

InitListener == Start({0}, {1}, Dirs)

Frame(message_type, payload) ==
  [hdr |-> build_header(message_type, payload), payload |-> payload, seq |-> 0]

\* What a client may write on the connection: well-formed frames of the four
\* types the dispatcher knows, in any order, a frame of a type it does not
\* know, and a CHUNK whose payload does not match its digest.
ClientFrames ==
  {Frame(MSG_HANDSHAKE, build_handshake_payload("sender", FALSE)),
   Frame(MSG_CHUNK, build_chunk_payload(0, <<1>>)),
   [Frame(MSG_CHUNK, build_chunk_payload(0, <<1>>)) EXCEPT !.payload.data = <<Flip(1)>>],
   Frame(MSG_DONE, build_done_payload),
   Frame(MSG_ACK, build_ack_payload(TRUE, ""))}
  \cup {Frame(MSG_FILE_META, build_file_meta_payload(f, 1, "text/plain", 1, 1)) :
          f \in {"file.txt", "notes"}}

\* accept() returns the client's connection; a handler thread is started.
ClientConnect ==
  /\ tpc = "idle"
  /\ lpc = "idle"
  /\ sock = "none"
  /\ sock' = "open"
  /\ lpc' = "run"
  /\ UNCHANGED <<file, config, tpc, f_pos, chunk_idx, raw_data, chunk_payload, attempt,
                 bytes_sent, progress_queue, cancel_event, cancelled_alive>>
  /\ UNCHANGED <<file_info, file_handle, dest, received, nvars, hvars, xvars>>

\* The peer writes one more frame, one of frames.
Writes(frames) ==
  /\ tpc = "idle"
  /\ sock = "open"
  /\ Len(wire) < MaxFrames
  /\ \E f \in frames :
       LET frame == [f EXCEPT !.seq = Len(wire) + 1]
       IN /\ wire' = Append(wire, frame)
          /\ c2s' = IF lpc = "closed" THEN c2s ELSE Append(c2s, frame)
  /\ UNCHANGED <<tvars, lvars, s2c, corrupted, lsent, dest_idx, attempts, last_ack_re,
                 refused, xvars>>

ClientSends == Writes(ClientFrames)

\* The client closes its end.
ClientCloses ==
  /\ tpc = "idle"
  /\ sock = "open"
  /\ sock' = "closed"
  /\ UNCHANGED <<file, config, tpc, f_pos, chunk_idx, raw_data, chunk_payload, attempt,
                 bytes_sent, progress_queue, cancel_event, cancelled_alive>>
  /\ UNCHANGED <<lvars, nvars, hvars, xvars>>

ListenerNext ==
  \/ ClientConnect
  \/ ClientSends
  \/ ClientCloses
  \/ LHandle
  \/ LPeerClosed

SpecListener == InitListener /\ [][ListenerNext]_vars

\* A JSON object without one of its members.
Without(payload, field) == [k \in DOMAIN payload \ {field} |-> payload[k]]

\* A JSON object with one more member.
With(payload, field, value) ==
  [k \in DOMAIN payload \cup {field} |-> IF k = field THEN value ELSE payload[k]]

\* PurePath.parts of the file names of the model
parts(filename) ==
  CASE filename = "../file.txt" -> <<"..", "file.txt">>
    [] filename = "/tmp/file.txt" -> <<"/", "tmp", "file.txt">>
    [] OTHER -> <<filename>>

\* What a peer that is not the FileTransmitter may write: HANDSHAKE and
\* FILE_META payloads that lack a field or carry one more, FILE_META whose
\* filename has path separators, and the frames that follow them in a
\* transfer.
PeerFrames ==
  LET hs == build_handshake_payload("sender", FALSE)
      meta == build_file_meta_payload("file.txt", 1, "text/plain", 1, 1)
  IN {Frame(MSG_HANDSHAKE, hs), Frame(MSG_HANDSHAKE, With(hs, "extra", 1)),
      Frame(MSG_FILE_META, meta), Frame(MSG_FILE_META, With(meta, "extra", 1)),
      Frame(MSG_CHUNK, build_chunk_payload(0, <<1>>)),
      Frame(MSG_DONE, build_done_payload)}
     \cup {Frame(MSG_HANDSHAKE, Without(hs, f)) : f \in DOMAIN hs}
     \cup {Frame(MSG_FILE_META, Without(meta, f)) : f \in DOMAIN meta}
     \cup {Frame(MSG_FILE_META, [meta EXCEPT !.filename = f]) :
             f \in {"../file.txt", "/tmp/file.txt"}}

PeerSends == Writes(PeerFrames)

PeerNext ==
  \/ ClientConnect
  \/ PeerSends
  \/ ClientCloses
  \/ LHandle
  \/ LPeerClosed

SpecPeer == Start({0}, {1}, {EmptyDir}) /\ [][PeerNext]_vars

(* ---------------- concurrent connection handlers ---------------- *)

\* _serve_forever starts one handler thread per accepted connection and goes
\* back to accept() without waiting for it, so handlers run concurrently.
\* Here each handler is followed through the FILE_META branch statement by
\* statement; the statements of different handlers interleave.

\* Handler c has received a FILE_META naming filename and computes
\* file_info.save_path = self._unique_path(file_info.filename).
HUniquePath(c) ==
  /\ handlers[c].pc = "idle"
  /\ \E filename \in {"file.txt", "notes"} :
       handlers' = [handlers EXCEPT ![c] = [pc |-> "chosen", filename |-> filename,
                                            save_path |-> _unique_path(receive_dir,
                                                                       filename)]]
  /\ UNCHANGED <<tvars, lvars, nvars, hvars, avars, yvars, receive_dir, dropped>>

\* file_handle = open(file_info.save_path, "wb")
HOpen(c) ==
  /\ handlers[c].pc = "chosen"
  /\ receive_dir' = OpenWb(receive_dir, handlers[c].save_path)
  /\ handlers' = [handlers EXCEPT ![c].pc = "open"]
  /\ UNCHANGED <<tvars, lvars, nvars, hvars, avars, yvars, dropped>>

\* A CHUNK of connection c: file_handle.write(decrypted); the byte written
\* tells the connections apart.
HWrite(c) ==
  /\ handlers[c].pc = "open"
  /\ Len(receive_dir[handlers[c].save_path]) < MaxFileSize
  /\ receive_dir' = [receive_dir EXCEPT ![handlers[c].save_path] = Append(@, c)]
  /\ UNCHANGED <<tvars, lvars, nvars, hvars, avars, yvars, handlers, dropped>>

\* DONE of connection c: file_handle.close(), the handler ends.
HDone(c) ==
  /\ handlers[c].pc = "open"
  /\ handlers' = [handlers EXCEPT ![c].pc = "closed"]
  /\ UNCHANGED <<tvars, lvars, nvars, hvars, avars, yvars, receive_dir, dropped>>

HandlersNext ==
  \E c \in Conns :
     \/ HUniquePath(c)
     \/ HOpen(c)
     \/ HWrite(c)
     \/ HDone(c)

SpecHandlers == InitListener /\ [][HandlersNext]_vars

(* ---------------- FileListener.start, stop, _serve_forever ---------------- *)

\* What start, stop and the accept thread leave alone.
ServeFrame == UNCHANGED <<tvars, lvars, nvars, hvars, avars, dvars, gvars, pvars, evars>>

\* start(): _running = True, the accept thread is started.
start ==
  /\ ~_running
  /\ serve_pc = "unstarted"
  /\ _running' = TRUE
  /\ serve_pc' = "socket"
  /\ UNCHANGED <<_server_socket, server_fd, stop_pc, backlog, accepted>>
  /\ ServeFrame

\* _serve_forever: self._server_socket = socket.socket(...); setsockopt
ServeSocket ==
  /\ serve_pc = "socket"
  /\ _server_socket' = "socket"
  /\ server_fd' = "created"
  /\ serve_pc' = "bind"
  /\ UNCHANGED <<_running, stop_pc, backlog, accepted>>
  /\ ServeFrame

\* bind, listen(1), settimeout(1.0): OSError, which nothing catches, when
\* stop() has closed the socket.
ServeBind ==
  /\ serve_pc = "bind"
  /\ IF server_fd = "closed"
       THEN serve_pc' = "done" /\ UNCHANGED server_fd
       ELSE serve_pc' = "loop" /\ server_fd' = "listening"
  /\ UNCHANGED <<_running, _server_socket, stop_pc, backlog, accepted>>
  /\ ServeFrame

\* `while self._running:`
ServeLoop ==
  /\ serve_pc = "loop"
  /\ serve_pc' = IF _running THEN "accept" ELSE "done"
  /\ UNCHANGED <<_running, _server_socket, server_fd, stop_pc, backlog, accepted>>
  /\ ServeFrame

\* accept(): OSError on a closed socket (break); a connection of the backlog,
\* for which a handler thread is started; or socket.timeout (continue).
ServeAccept ==
  /\ serve_pc = "accept"
  /\ IF server_fd = "closed"
       THEN serve_pc' = "done" /\ UNCHANGED <<backlog, accepted>>
     ELSE IF backlog # {}
       THEN \E c \in backlog :
              /\ backlog' = backlog \ {c}
              /\ accepted' = accepted \cup {c}
              /\ serve_pc' = "loop"
     ELSE serve_pc' = "loop" /\ UNCHANGED <<backlog, accepted>>
  /\ UNCHANGED <<_running, _server_socket, server_fd, stop_pc>>
  /\ ServeFrame

\* A peer connects: the listening socket completes the connection.
PeerConnects ==
  /\ server_fd = "listening"
  /\ \E c \in Conns \ (backlog \cup accepted) : backlog' = backlog \cup {c}
  /\ UNCHANGED <<_running, _server_socket, server_fd, serve_pc, stop_pc, accepted>>
  /\ ServeFrame

\* stop(): self._running = False
StopClear ==
  /\ stop_pc = "idle"
  /\ serve_pc # "unstarted"
  /\ _running' = FALSE
  /\ stop_pc' = "close"
  /\ UNCHANGED <<_server_socket, server_fd, serve_pc, backlog, accepted>>
  /\ ServeFrame

\* stop(): `if self._server_socket: self._server_socket.close()`; closing
\* drops the connections still in the backlog.
StopClose ==
  /\ stop_pc = "close"
  /\ IF _server_socket = "None"
       THEN UNCHANGED <<server_fd, backlog>>
       ELSE server_fd' = "closed" /\ backlog' = {}
  /\ stop_pc' = "join"
  /\ UNCHANGED <<_running, _server_socket, serve_pc, accepted>>
  /\ ServeFrame

\* stop(): self._thread.join(timeout=5) returns once the accept thread has
\* ended, which takes it at most the accept timeout of one second.
StopJoin ==
  /\ stop_pc = "join"
  /\ serve_pc = "done"
  /\ stop_pc' = "returned"
  /\ UNCHANGED <<_running, _server_socket, server_fd, serve_pc, backlog, accepted>>
  /\ ServeFrame

\* A step of the handler thread of an accepted connection.
HandlerStep ==
  \E c \in accepted :
     \/ HUniquePath(c)
     \/ HOpen(c)
     \/ HWrite(c)
     \/ HDone(c)

StopNext ==
  \/ start
  \/ ServeSocket
  \/ ServeBind
  \/ ServeLoop
  \/ ServeAccept
  \/ PeerConnects
  \/ StopClear
  \/ StopClose
  \/ StopJoin
  \/ HandlerStep

InitStop ==
  /\ Base({0}, {1}, {EmptyDir}, {FALSE})
  /\ Sessions({FALSE}, {TRUE})
  /\ Constructed
  /\ EngineInit
  /\ NoCall

SpecStop == InitStop /\ [][StopNext]_vars

(* ---------------- shared/protocol.py on bytes ---------------- *)

\* _HEADER_STRUCT.size for ">4sBBI32s"
HEADER_STRUCT_size == 42

_PADDING_SIZE == HEADER_SIZE - HEADER_STRUCT_size

Zeros(n) == [i \in 1..n |-> 0]

\* payload[:n] and payload[n:]
Take(b, n) == SubSeq(b, 1, Min(n, Len(b)))
Drop(b, n) == SubSeq(b, n + 1, Len(b))

\* The four bytes least significant first.
LE32(n) == <<n % 256, (n \div 256) % 256, (n \div 65536) % 256, n \div 16777216>>

\* struct format "I" under ">": an unsigned 32-bit integer, most significant
\* byte first
BE32(n) == <<n \div 16777216, (n \div 65536) % 256, (n \div 256) % 256, n % 256>>

FromBE32(b) == ((b[1] * 256 + b[2]) * 256 + b[3]) * 256 + b[4]

\* hashlib.sha256(payload).digest(): 32 bytes, collision-free on the payloads
\* of the model (the length, then the first 30 bytes).
sha256_digest(payload) ==
  [i \in 1..32 |-> IF i = 1 THEN Len(payload) % 256
                   ELSE IF i = 2 THEN Len(payload) \div 256
                   ELSE IF i - 2 <= Len(payload) THEN payload[i - 2]
                   ELSE 0]

\* build_header: _HEADER_STRUCT.pack(...) followed by the padding
build_header_bytes(message_type, payload) ==
  MAGIC_NUMBER_FULL \o <<PROTOCOL_VERSION, message_type>> \o BE32(Len(payload))
    \o sha256_digest(payload) \o Zeros(_PADDING_SIZE)

ProtocolHeader(message_type, payload_length, payload_hash, version) ==
  [message_type |-> message_type, payload_length |-> payload_length,
   payload_hash |-> payload_hash, version |-> version]

\* The version byte is not compared.
parse_header_AnyVersion(data) ==
  IF Len(data) < HEADER_SIZE THEN None
  ELSE IF SubSeq(data, 1, 4) # MAGIC_NUMBER_FULL THEN None
  ELSE ProtocolHeader(data[6], FromBE32(SubSeq(data, 7, 10)), SubSeq(data, 11, 42),
                      data[5])

parse_header(data) ==
  IF Len(data) < HEADER_SIZE THEN None
  ELSE LET magic == SubSeq(data, 1, 4)
           version == data[5]
           msg_type == data[6]
           payload_length == FromBE32(SubSeq(data, 7, 10))
           payload_hash == SubSeq(data, 11, 42)
       IN IF magic # MAGIC_NUMBER_FULL THEN None
          ELSE IF version # PROTOCOL_VERSION THEN None
          ELSE ProtocolHeader(msg_type, payload_length, payload_hash, version)

\* ProtocolHeader.validate_payload on bytes
validate_payload_bytes(header, payload) == sha256_digest(payload) = header.payload_hash

\* A value of a dict with its Python type.
JStr(v) == <<"str", v>>
JInt(n) == <<"int", n>>
JBool(b) == <<"bool", b>>

\* json.dumps of a str, an int and a bool: the token written
JToken(typed) ==
  CASE typed[1] = "str" -> [type |-> "string", text |-> typed[2]]
    [] typed[1] = "int" -> [type |-> "number", text |-> ToString(typed[2])]
    [] typed[1] = "bool" -> [type |-> "literal",
                             text |-> IF typed[2] THEN "true" ELSE "false"]

\* The integers a number token of the model can denote.
JsonInts == {0, 1, 2, 65536, 2147483647}

\* json.loads of one token
JValue(tok) ==
  CASE tok.type = "string" -> tok.text
    [] tok.type = "number" -> CHOOSE n \in JsonInts : ToString(n) = tok.text
    [] tok.type = "literal" -> (tok.text = "true")

\* json.dumps(data).encode("utf-8") of a dict given as its members in order:
\* the text, member by member.
json_dumps(members) ==
  [i \in 1..Len(members) |-> [name |-> members[i].name, value |-> JToken(members[i].value)]]

\* json.loads(payload.decode("utf-8")): the dict of the members read.
json_loads(payload) ==
  [k \in {payload[i].name : i \in 1..Len(payload)} |->
     JValue((CHOOSE m \in {payload[i] : i \in 1..Len(payload)} : m.name = k).value)]

Member(name, value) == [name |-> name, value |-> value]

build_handshake_payload_bytes(sender_id, encryption_enabled) ==
  json_dumps(<<Member("sender_id", JStr(sender_id)),
               Member("encryption", JBool(encryption_enabled))>>)

build_file_meta_payload_bytes(filename, fsize, mime_type, chunk_count, csize) ==
  json_dumps(<<Member("filename", JStr(filename)), Member("file_size", JInt(fsize)),
               Member("mime_type", JStr(mime_type)),
               Member("chunk_count", JInt(chunk_count)),
               Member("chunk_size", JInt(csize))>>)

build_ack_payload_bytes(success, message) ==
  json_dumps(<<Member("success", JBool(success)), Member("message", JStr(message))>>)

build_error_payload_bytes(error_code, reason) ==
  json_dumps(<<Member("error_code", JInt(error_code)), Member("reason", JStr(reason))>>)

build_done_payload_bytes == json_dumps(<<Member("status", JStr("complete"))>>)

\* struct.pack(">I", chunk_index) + data
build_chunk_payload_bytes(chunk_index, data) == BE32(chunk_index) \o data

\* The data starts at the sixth byte.
parse_chunk_payload_FromFive(payload) ==
  <<FromBE32(Take(payload, 4)), Drop(payload, 5)>>

\* parse_chunk_payload: (chunk_index, chunk_data)
parse_chunk_payload(payload) == <<FromBE32(Take(payload, 4)), Drop(payload, 4)>>

\* The bytes of the model's payloads, and the payloads.
Bytes == {0, 255}

RECURSIVE ByteSeqs(_)
ByteSeqs(n) ==
  IF n = 0 THEN {<<>>}
  ELSE ByteSeqs(n - 1) \cup {Append(b, x) : b \in {q \in ByteSeqs(n - 1) : Len(q) = n - 1},
                                             x \in Bytes}

\* A payload whose length does not fit one byte.
LongPayload == [i \in 1..300 |-> 7]

Payloads == ByteSeqs(MaxPayloadLen) \cup {LongPayload}

ChunkIndices == {0, 1, 255, 256, 65536, 16777472, 2147483647}

\* The calls followed: the function and its arguments.
Calls ==
  [fn : {"build_header"}, message_type : 0..255, payload : Payloads]
    \cup [fn : {"build_chunk_payload"}, chunk_index : ChunkIndices, data : Payloads]
    \cup [fn : {"build_handshake_payload"}, sender_id : {"sender", ""},
           encryption_enabled : BOOLEAN]
    \cup [fn : {"build_file_meta_payload"}, filename : {"file.txt", "notes"},
           file_size : {0, 2147483647}, mime_type : {"text/plain", ""},
           chunk_count : {1, 2}, chunk_size : {1, 65536}]
    \cup [fn : {"build_ack_payload"}, success : BOOLEAN, message : {"Ready", ""}]
    \cup [fn : {"build_error_payload"}, error_code : {0, 1, 2},
           reason : {"Integrity check failed", ""}]
    \cup [fn : {"build_done_payload"}]

InitProtocol ==
  /\ Base({0}, {1}, {EmptyDir}, {FALSE})
  /\ Sessions({FALSE}, {TRUE})
  /\ Serving
  /\ EngineInit
  /\ call \in Calls
  /\ buf = <<>>
  /\ result = None
  /\ outcome = None
  /\ ppc = "args"

BuildHeader ==
  /\ ppc = "args"
  /\ call.fn = "build_header"
  /\ buf' = build_header_bytes(call.message_type, call.payload)
  /\ ppc' = "built"
  /\ UNCHANGED <<fvars, gvars, call, result, outcome>>

\* What reaches the reader is not what build_header returned: the buffer is
\* cut short, or one of its first six bytes has another value.
Damage ==
  /\ ppc = "built"
  /\ call.fn = "build_header"
  /\ \/ \E n \in {0, 41, 255} : buf' = Take(buf, n)
     \/ \E i \in 1..6, v \in {0, 1, 2, 3, 255} :
          /\ buf[i] # v
          /\ buf' = [buf EXCEPT ![i] = v]
  /\ ppc' = "damaged"
  /\ UNCHANGED <<fvars, gvars, call, result, outcome>>

ParseHeader ==
  /\ ppc \in {"built", "damaged"}
  /\ call.fn = "build_header"
  /\ result' = parse_header(buf)
  /\ ppc' = "parsed"
  /\ UNCHANGED <<fvars, gvars, call, buf, outcome>>

\* One iteration of the read loop of _handle_connection up to the dispatch,
\* for a peer that wrote buf and then the payload: _recv_exact returns the
\* HEADER_SIZE bytes, parse_header, validate_payload, and the branch taken.
ReadLoopHead ==
  /\ ppc \in {"built", "damaged"}
  /\ call.fn = "build_header"
  /\ Len(buf) >= HEADER_SIZE
  /\ LET header_data == Take(buf, HEADER_SIZE)
         header == parse_header(header_data)
     IN /\ result' = header
        /\ outcome' =
             IF header = None
               THEN [conn |-> "closed", reply |-> None, branch |-> None]
             ELSE IF ~validate_payload_bytes(header, call.payload)
               THEN [conn |-> "closed",
                     reply |-> build_error_payload(1, "Integrity check failed"),
                     branch |-> None]
             ELSE IF header.message_type \in {MSG_HANDSHAKE, MSG_FILE_META, MSG_CHUNK,
                                              MSG_DONE}
               THEN [conn |-> "open", reply |-> None, branch |-> header.message_type]
             ELSE [conn |-> "closed", reply |-> None, branch |-> None]
  /\ ppc' = "handled"
  /\ UNCHANGED <<fvars, gvars, call, buf>>

BuildPayload ==
  /\ ppc = "args"
  /\ call.fn # "build_header"
  /\ buf' = CASE call.fn = "build_chunk_payload" ->
                   build_chunk_payload_bytes(call.chunk_index, call.data)
             [] call.fn = "build_handshake_payload" ->
                   build_handshake_payload_bytes(call.sender_id, call.encryption_enabled)
             [] call.fn = "build_file_meta_payload" ->
                   build_file_meta_payload_bytes(call.filename, call.file_size,
                                                 call.mime_type, call.chunk_count,
                                                 call.chunk_size)
             [] call.fn = "build_ack_payload" ->
                   build_ack_payload_bytes(call.success, call.message)
             [] call.fn = "build_error_payload" ->
                   build_error_payload_bytes(call.error_code, call.reason)
             [] call.fn = "build_done_payload" -> build_done_payload_bytes
  /\ ppc' = "built"
  /\ UNCHANGED <<fvars, gvars, call, result, outcome>>

\* The parse function that goes with the build function called.
ParsePayload ==
  /\ ppc = "built"
  /\ call.fn # "build_header"
  /\ result' = IF call.fn = "build_chunk_payload" THEN parse_chunk_payload(buf)
               ELSE json_loads(buf)
  /\ ppc' = "parsed"
  /\ UNCHANGED <<fvars, gvars, call, buf, outcome>>

ProtocolNext ==
  \/ BuildHeader
  \/ Damage
  \/ ParseHeader
  \/ ReadLoopHead
  \/ BuildPayload
  \/ ParsePayload

SpecProtocol == InitProtocol /\ [][ProtocolNext]_vars

(* ---------------- sender/gesture_engine.py ---------------- *)

States == {STATE_IDLE, STATE_BROWSING, STATE_FILE_SELECTED, STATE_CONFIRMING_SEND,
           STATE_SENDING, STATE_SEND_COMPLETE}

Gestures == {GESTURE_OPEN_PALM, GESTURE_SWIPE_LEFT, GESTURE_SWIPE_RIGHT, GESTURE_PINCH,
             GESTURE_FIST, GESTURE_TWO_FINGER, GESTURE_NONE}

\* A Fist while sending resets to IDLE.
_process_transition_CancelToIdle(state, gesture) ==
  CASE state = STATE_IDLE /\ gesture = GESTURE_OPEN_PALM -> STATE_BROWSING
    [] state = STATE_BROWSING /\ gesture = GESTURE_PINCH -> STATE_FILE_SELECTED
    [] state = STATE_BROWSING /\ gesture = GESTURE_FIST -> STATE_IDLE
    [] state = STATE_FILE_SELECTED /\ gesture = GESTURE_OPEN_PALM -> STATE_CONFIRMING_SEND
    [] state = STATE_FILE_SELECTED
         /\ gesture \in {GESTURE_SWIPE_LEFT, GESTURE_SWIPE_RIGHT} -> STATE_BROWSING
    [] state = STATE_FILE_SELECTED /\ gesture = GESTURE_FIST -> STATE_IDLE
    [] state = STATE_CONFIRMING_SEND /\ gesture = GESTURE_PINCH -> STATE_SENDING
    [] state = STATE_CONFIRMING_SEND /\ gesture = GESTURE_FIST -> STATE_FILE_SELECTED
    [] state = STATE_SENDING /\ gesture = GESTURE_FIST -> STATE_IDLE
    [] OTHER -> state

\* GestureEngine._process_transition: the value of _state after the call, for
\* the value before it and the confirmed gesture.
_process_transition(state, gesture) ==
  IF state = STATE_IDLE
    THEN IF gesture = GESTURE_OPEN_PALM THEN STATE_BROWSING ELSE state
  ELSE IF state = STATE_BROWSING
    THEN IF gesture = GESTURE_PINCH THEN STATE_FILE_SELECTED
         ELSE IF gesture = GESTURE_FIST THEN STATE_IDLE
         ELSE state
  ELSE IF state = STATE_FILE_SELECTED
    THEN IF gesture = GESTURE_OPEN_PALM THEN STATE_CONFIRMING_SEND
         ELSE IF gesture \in {GESTURE_SWIPE_LEFT, GESTURE_SWIPE_RIGHT} THEN STATE_BROWSING
         ELSE IF gesture = GESTURE_FIST THEN STATE_IDLE
         ELSE state
  ELSE IF state = STATE_CONFIRMING_SEND
    THEN IF gesture = GESTURE_PINCH THEN STATE_SENDING
         ELSE IF gesture = GESTURE_FIST THEN STATE_FILE_SELECTED
         ELSE state
  ELSE IF state = STATE_SENDING
    THEN IF gesture = GESTURE_FIST THEN STATE_FILE_SELECTED ELSE state
  ELSE state

\* A call of _process_transition with any gesture, in any state the engine is in.
ProcessTransition ==
  /\ Len(transitions) < MaxGestures
  /\ \E gesture \in Gestures :
        /\ _state' = _process_transition(_state, gesture)
        /\ transitions' = Append(transitions,
                                 [before |-> _state, gesture |-> gesture,
                                  after |-> _state'])
  /\ last_call' = "_process_transition"
  /\ UNCHANGED <<fvars, pvars, _hysteresis, _hysteresis_threshold, _cooldowns,
                 _send_complete_time, clock, n_updates, last_update, streak>>

notify_transfer_complete ==
  /\ _state' = STATE_SEND_COMPLETE
  /\ _send_complete_time' = clock
  /\ last_call' = "notify_transfer_complete"
  /\ UNCHANGED <<fvars, pvars, transitions, _hysteresis, _hysteresis_threshold, _cooldowns,
                 clock, n_updates, last_update, streak>>

notify_transfer_error ==
  /\ _state' = STATE_FILE_SELECTED
  /\ last_call' = "notify_transfer_error"
  /\ UNCHANGED <<fvars, pvars, transitions, _hysteresis, _hysteresis_threshold, _cooldowns,
                 _send_complete_time, clock, n_updates, last_update, streak>>

\* update() in SEND_COMPLETE once SEND_COMPLETE_RESET_DELAY has elapsed.
AutoReset ==
  /\ _state = STATE_SEND_COMPLETE
  /\ _state' = STATE_IDLE
  /\ last_call' = "update"
  /\ UNCHANGED <<fvars, pvars, transitions, _hysteresis, _hysteresis_threshold, _cooldowns,
                 _send_complete_time, clock, n_updates, last_update, streak>>

GestureNext ==
  \/ ProcessTransition
  \/ notify_transfer_complete
  \/ notify_transfer_error
  \/ AutoReset

SpecGesture == Start({0}, {1}, {EmptyDir}) /\ [][GestureNext]_vars

(* ---------------- GestureEngine.update ---------------- *)

\* _VALID_GESTURES.get(state, set())
_VALID_GESTURES(state) ==
  CASE state = STATE_IDLE -> {GESTURE_OPEN_PALM}
    [] state = STATE_BROWSING ->
         {GESTURE_SWIPE_LEFT, GESTURE_SWIPE_RIGHT, GESTURE_PINCH, GESTURE_FIST}
    [] state = STATE_FILE_SELECTED ->
         {GESTURE_OPEN_PALM, GESTURE_SWIPE_LEFT, GESTURE_SWIPE_RIGHT, GESTURE_FIST,
          GESTURE_TWO_FINGER}
    [] state = STATE_CONFIRMING_SEND -> {GESTURE_PINCH, GESTURE_FIST}
    [] state = STATE_SENDING -> {GESTURE_FIST}
    [] OTHER -> {}

\* GestureEngine._cooldown_durations, from the default SenderConfig.
_cooldown_durations(gesture) ==
  CASE gesture = GESTURE_OPEN_PALM -> COOLDOWN_OPEN_PALM
    [] gesture \in {GESTURE_SWIPE_LEFT, GESTURE_SWIPE_RIGHT} -> COOLDOWN_SWIPE
    [] gesture = GESTURE_PINCH -> COOLDOWN_PINCH
    [] gesture = GESTURE_FIST -> COOLDOWN_FIST
    [] gesture = GESTURE_TWO_FINGER -> COOLDOWN_TWO_FINGER

\* _hysteresis after _reset_hysteresis()
_reset_hysteresis == [g \in Counted |-> 0]

\* The None that update() and _apply_hysteresis return for no confirmation.
Unconfirmed == "<None>"

\* _apply_hysteresis(gesture, now): what it returns (confirmed) and what it
\* leaves in _hysteresis (counts) and _cooldowns (cooldowns).
_apply_hysteresis(gesture, now) ==
  IF gesture = GESTURE_NONE \/ gesture \notin _VALID_GESTURES(_state)
    THEN [counts |-> _reset_hysteresis, cooldowns |-> _cooldowns,
          confirmed |-> Unconfirmed]
  ELSE LET counts == [g \in Counted |-> IF g = gesture THEN _hysteresis[g] + 1 ELSE 0]
       IN IF counts[gesture] < _hysteresis_threshold
            THEN [counts |-> counts, cooldowns |-> _cooldowns, confirmed |-> Unconfirmed]
          ELSE IF now - _cooldowns[gesture] < _cooldown_durations(gesture)
            THEN [counts |-> counts, cooldowns |-> _cooldowns, confirmed |-> Unconfirmed]
          ELSE [counts |-> _reset_hysteresis,
                cooldowns |-> [_cooldowns EXCEPT ![gesture] = now],
                confirmed |-> gesture]

\* The delay must be exceeded.
ResetDue_Strict(now) == now - _send_complete_time > SEND_COMPLETE_RESET_DELAY

\* now - self._send_complete_time >= SEND_COMPLETE_RESET_DELAY
ResetDue(now) == now - _send_complete_time >= SEND_COMPLETE_RESET_DELAY

\* A frame in which the detector found no hand: landmarks is empty.
NoHand == "no landmarks"

\* The frames update() is called with: no hand, or landmarks that
\* _classify_gesture maps to one of the gestures (GESTURE_NONE included).
Landmarks == Gestures \cup {NoHand}

\* The time between a call of update() and the call of time.time() before it:
\* a tenth of a second, or SEND_COMPLETE_RESET_DELAY.
Steps == {1, SEND_COMPLETE_RESET_DELAY}

\* update(landmarks) with time.time() = now, on the engine alone.
Update(landmarks, now) ==
  LET h == _apply_hysteresis(landmarks, now)
      early == _state = STATE_SEND_COMPLETE \/ landmarks = NoHand
      confirmed == IF early THEN Unconfirmed ELSE h.confirmed
  IN /\ clock' = now
     /\ _state' = IF _state = STATE_SEND_COMPLETE
                    THEN IF ResetDue(now) THEN STATE_IDLE ELSE _state
                  ELSE IF confirmed # Unconfirmed
                    THEN _process_transition(_state, confirmed)
                  ELSE _state
     /\ _hysteresis' = IF _state = STATE_SEND_COMPLETE THEN _hysteresis
                       ELSE IF landmarks = NoHand THEN _reset_hysteresis
                       ELSE h.counts
     /\ _cooldowns' = IF early THEN _cooldowns ELSE h.cooldowns
     /\ transitions' = IF confirmed # Unconfirmed
                         THEN Append(transitions, [before |-> _state, gesture |-> confirmed,
                                                   after |-> _state'])
                       ELSE transitions
     /\ n_updates' = n_updates + 1
     /\ last_update' = [state |-> _state, landmarks |-> landmarks, now |-> now,
                        notified |-> _send_complete_time, cooldowns |-> _cooldowns,
                        confirmed |-> confirmed, counts |-> _hysteresis',
                        calls |-> Len(transitions') - Len(transitions),
                        after |-> _state']
     /\ streak' = [landmarks |-> landmarks,
                   frames |-> IF streak.landmarks = landmarks THEN streak.frames + 1
                              ELSE 1]
     /\ last_call' = "update"
     /\ UNCHANGED <<_hysteresis_threshold, _send_complete_time>>

\* update() called by a thread that drives the engine alone
\* (on_gesture_confirmed is None).
update ==
  /\ n_updates < MaxUpdates
  /\ \E landmarks \in Landmarks, dt \in Steps : Update(landmarks, clock + dt)
  /\ UNCHANGED <<fvars, pvars>>

EngineNext ==
  \/ update
  \/ notify_transfer_complete
  \/ notify_transfer_error

InitEngine ==
  /\ Base({0}, {1}, {EmptyDir}, {FALSE})
  /\ Sessions({FALSE}, {TRUE})
  /\ Serving
  /\ Engine(1..MaxHysteresis)
  /\ NoCall

SpecEngine == InitEngine /\ [][EngineNext]_vars

(* ======================= properties ======================= *)

Last(q) == q[Len(q)]

\* The worker has ended and its terminal snapshot reports success.
ReportedDone == tpc = "finished" /\ progress_queue # <<>> /\ Last(progress_queue).done

\* The worker has ended and its terminal snapshot carries an error.
ReportedError == tpc = "finished" /\ progress_queue # <<>> /\ Last(progress_queue).error # ""

\* A CHUNK frame was handed to sendall more than once for some chunk.
Resent == \E i, j \in 1..Len(wire) :
            /\ i < j
            /\ wire[i].hdr.message_type = MSG_CHUNK
            /\ wire[j].hdr.message_type = MSG_CHUNK
            /\ wire[i].payload.chunk_index = wire[j].payload.chunk_index

\* C1: for every transfer the transmitter reports as successful (done = true),
\* resends after an ACK timeout included, once the listener's handler has
\* ended the destination file holds exactly the bytes of the source file: the
\* plaintext chunks in index order, each once.
C1_DestEqualsSource == (ReportedDone /\ lpc = "closed") => dest = file

\* The transmitter is about to write a frame it has not written before: the
\* FILE_META, the first attempt of a chunk, or DONE.
AboutToWriteNext ==
  \/ tpc \in {"send_meta", "send_done"}
  \/ tpc = "send_chunk" /\ attempt = 0

\* C2: the transmitter does not write the next frame (the next chunk index,
\* or DONE) until it has received the ACK the listener produced in response
\* to the frame it wrote last, also after a chunk was resent.
C2_AckOfLastFrame == AboutToWriteNext => last_ack_re = Len(wire)

WireType(i) == wire[i].hdr.message_type

\* C3: the frames written are one HANDSHAKE, then (after its ACK) one
\* FILE_META, then (after its ACK) CHUNK frames, then at most one DONE, last;
\* the socket is closed only after the ACK for DONE was received or the
\* transfer failed or was cancelled.
C3_FrameSequence ==
  /\ \A i \in 1..Len(wire) :
       /\ (i = 1) <=> (WireType(i) = MSG_HANDSHAKE)
       /\ (i = 2) <=> (WireType(i) = MSG_FILE_META)
       /\ i >= 3 => \/ WireType(i) = MSG_CHUNK
                    \/ WireType(i) = MSG_DONE /\ i = Len(wire)
  /\ Len(wire) >= 2 => last_ack_re >= 1
  /\ Len(wire) >= 3 => last_ack_re >= 2
  /\ sock = "closed" =>
       \/ ReportedError
       \/ /\ wire # <<>>
          /\ WireType(Len(wire)) = MSG_DONE
          /\ last_ack_re = Len(wire)

\* C6: chunks_received <= chunk_count in every state of the handler.
C6_ChunksReceivedBounded == file_info.chunks_received <= file_info.chunk_count

\* C7: the chunk indices appended to the destination file are 0, 1, 2, ...
C7_IndicesIncreasing == \A k \in 1..Len(dest_idx) : dest_idx[k] = k - 1

\* C8: once the transmitter, awaiting an ACK, has read an ERROR frame or a
\* frame of another type than ACK, the transfer is over: no frame is written
\* after it and the worker ends with an error snapshot.
C8_RefusalIsFatal ==
  \A k \in 1..Len(refused) :
     /\ tpc = "finished"
     /\ ReportedError
     /\ Len(wire) = refused[k].written

IntegrityError == build_error_payload(1, "Integrity check failed")

\* The transmitter has read the listener's ERROR{1, "Integrity check failed"}
\* sent in response to a CHUNK frame.
ReadIntegrityErrorForChunk ==
  \E k \in 1..Len(refused) :
     /\ refused[k].frame.message_type = MSG_ERROR
     /\ refused[k].frame.payload = IntegrityError
     /\ WireType(refused[k].frame.re) = MSG_CHUNK

\* C10: when a CHUNK was corrupted in transit and the listener answered
\* ERROR{1, "Integrity check failed"}, the terminal snapshot carries the
\* reason sent in that ERROR frame.
C10_PeerErrorSurfaced ==
  (tpc = "finished" /\ ReadIntegrityErrorForChunk) =>
     Last(progress_queue).error = "Receiver error: Integrity check failed"

\* The positions in wire of the CHUNK frames written for chunk c.
ChunkWrites(c) ==
  {i \in 1..Len(wire) : WireType(i) = MSG_CHUNK /\ wire[i].payload.chunk_index = c}

\* The concluded attempts of _send_with_retry for chunk c.
ChunkAttempts(c) == {k \in 1..Len(attempts) : attempts[k].chunk_index = c}

Chunks == 0..(total_chunks - 1)

\* The CHUNK frame of chunk c as the code builds it from the source file.
ChunkFrameOf(c) ==
  LET data == SubSeq(file, c * chunk_size + 1, Min((c + 1) * chunk_size, file_size))
      payload == [chunk_index |-> c, data |-> data]
  IN [message_type |-> MSG_CHUNK, payload |-> payload,
      payload_hash |-> <<"sha256", payload>>]

\* C4: at most MAX_RETRIES = 3 attempts per chunk; every attempt writes the
\* same CHUNK frame (index and payload bytes) and then waits for the ACK; a
\* failed attempt 1 or 2 is followed by a resend, and only the failure of
\* attempt 3 ends the transfer with that error.
C4_ThreeIdenticalAttempts ==
  /\ attempt \in 0..2
  /\ \A c \in Chunks :
       /\ Cardinality(ChunkWrites(c)) <= 3
       /\ \A i \in ChunkWrites(c) :
            [message_type |-> wire[i].hdr.message_type, payload |-> wire[i].payload,
             payload_hash |-> wire[i].hdr.payload_hash] = ChunkFrameOf(c)
       \* one write per attempt, the attempt in progress included
       /\ Cardinality(ChunkWrites(c)) =
            Cardinality(ChunkAttempts(c))
              + (IF tpc = "ack_chunk" /\ chunk_idx = c THEN 1 ELSE 0)
  /\ \A k \in 1..Len(attempts) :
       LET a == attempts[k]
       IN /\ a.attempt \in 0..2
          /\ (a.exc # "" /\ a.attempt < 2) =>
               IF k = Len(attempts)
                 THEN tpc \in {"send_chunk", "ack_chunk"} /\ attempt = a.attempt + 1
                      /\ chunk_idx = a.chunk_index
                 ELSE attempts[k + 1].chunk_index = a.chunk_index
                      /\ attempts[k + 1].attempt = a.attempt + 1
          /\ (a.exc # "" /\ a.attempt = 2) =>
               /\ k = Len(attempts)
               /\ ReportedError
               /\ Last(progress_queue).error = a.exc
  \* a transfer that ended in the chunk phase for another reason than
  \* cancellation ended on a failed third attempt
  /\ ( /\ ReportedError
       /\ wire # <<>> /\ WireType(Len(wire)) = MSG_CHUNK
       /\ Last(progress_queue).error # "Cancelled by user" ) =>
         /\ attempts # <<>>
         /\ Last(attempts).attempt = 2
         /\ Last(attempts).exc = Last(progress_queue).error

\* A chunk was resent after a timeout and after a refused reply, and a third
\* attempt failed and ended the transfer.
C4_Witness ==
  /\ ReportedError
  /\ Len(attempts) >= 3
  /\ \E k \in 1..Len(attempts) : attempts[k].exc = "timed out" /\ attempts[k].attempt < 2
  /\ Last(attempts).attempt = 2
  /\ Last(attempts).exc # ""
  /\ Cardinality(ChunkWrites(Last(attempts).chunk_index)) = 3

\* The payload of a frame is not the payload its header's digest was computed on.
DigestMismatch(frame) == frame.hdr.payload_hash # <<"sha256", frame.payload>>

\* The listener's handler takes the next frame off the stream in this step.
ListenerReads == lpc = "run" /\ c2s # <<>> /\ Len(c2s') < Len(c2s)

\* C9: on a frame whose payload does not match the digest of its header the
\* listener sends ERROR{1, "Integrity check failed"} and nothing else (no
\* ACK), writes nothing to the destination file, leaves chunks_received
\* unchanged, and processes no further frame of the connection.
C9_IntegrityFailureCloses ==
  [][ /\ (ListenerReads /\ DigestMismatch(Head(c2s))) =>
           /\ lsent' = Append(lsent, [message_type |-> MSG_ERROR,
                                      payload |-> IntegrityError,
                                      re |-> Head(c2s).seq])
           /\ dest' = dest
           /\ dest_idx' = dest_idx
           /\ file_info' = file_info
           /\ lpc' = "closed"
      /\ lpc = "closed" =>
           /\ lpc' = "closed"
           /\ Len(c2s') >= Len(c2s)
           /\ lsent' = lsent
           /\ dest' = dest
    ]_vars

\* The second chunk of a file arrived corrupted: the first is in the file, the
\* handler has answered ERROR{1} and ended, the corrupted payload is not in
\* the file.
C9_Witness ==
  /\ lpc = "closed"
  /\ lsent # <<>>
  /\ Last(lsent).message_type = MSG_ERROR
  /\ Last(lsent).payload = IntegrityError
  /\ WireType(Last(lsent).re) = MSG_CHUNK
  /\ file_info.chunks_received = 1
  /\ dest = <<1>>

\* The worker ends in this step.
WorkerEnds == tpc # "finished" /\ tpc' = "finished"

\* The worker reads, as the reply to DONE, an ACK with success = true.
DoneAcked ==
  /\ tpc = "ack_done"
  /\ s2c # <<>>
  /\ s2c' = Tail(s2c)
  /\ AckError(Head(s2c)) = ""

\* C11: on every path by which the worker ends in failure (stat or open error,
\* connect failure, timeout, peer close, ERROR, NACK, unexpected frame, at any
\* step of the pipeline) it puts one snapshot with a non-empty error and
\* done = false, and the socket, if one was created, is closed when it ends.
C11_FailureReported ==
  [][ (WorkerEnds /\ ~DoneAcked) =>
        /\ Len(progress_queue') = Len(progress_queue) + 1
        /\ SubSeq(progress_queue', 1, Len(progress_queue)) = progress_queue
        /\ Last(progress_queue').error # ""
        /\ ~Last(progress_queue').done
        /\ sock' # "open"
        /\ sock = "open" => sock' = "closed"
    ]_vars

\* The listener closed the connection and the worker, waiting for an ACK, got
\* the end of the stream: the error is on the queue, the socket is closed.
C11_Witness ==
  /\ tpc = "finished"
  /\ sock = "closed"
  /\ Last(progress_queue).error = "Connection closed while reading"
  /\ ~Last(progress_queue).done

\* C12: once cancel() has been called while the worker is running, the
\* transfer writes no DONE frame (the worker is never at the point of writing
\* it with the flag set) and puts no snapshot with done = true.
C12_CancelStopsTransfer ==
  cancel_event =>
    /\ tpc # "send_done"
    /\ \A j \in 1..Len(progress_queue) : ~progress_queue[j].done

\* The listener takes an intact frame of the given type off the stream.
ListenerHandles(message_type) ==
  /\ ListenerReads
  /\ ~DigestMismatch(Head(c2s))
  /\ Head(c2s).hdr.message_type = message_type

\* The path expected for a file name: the name itself when no such file
\* exists, else stem_k+ext for the smallest k >= 1 that does not exist.
SmallestFree(dir, filename) ==
  IF filename \notin DOMAIN dir
    THEN filename
    ELSE LET k == CHOOSE k \in 1..(Cardinality(DOMAIN dir) + 1) :
                    /\ Candidate(filename, k) \notin DOMAIN dir
                    /\ \A j \in 1..(k - 1) : Candidate(filename, j) \in DOMAIN dir
         IN Candidate(filename, k)

\* C16: for any set of files existing in the receive directory, the save path
\* chosen for a FILE_META is dir/stem+ext when that does not exist, else
\* dir/stem_k+ext for the smallest k >= 1 that does not exist; the file is
\* created there, and the files that already existed are left unchanged.
C16_UniquePath ==
  [][ /\ ListenerHandles(MSG_FILE_META) =>
           /\ file_info'.save_path = SmallestFree(receive_dir, Head(c2s).payload.filename)
           /\ file_info'.save_path \notin DOMAIN receive_dir
           /\ DOMAIN receive_dir' = DOMAIN receive_dir \cup {file_info'.save_path}
           /\ receive_dir'[file_info'.save_path] = <<>>
      /\ \A f \in DOMAIN receive_dir :
           receive_dir[f] = OldBytes =>
             f \in DOMAIN receive_dir' /\ receive_dir'[f] = OldBytes
    ]_vars

\* file.txt and file_1.txt existed: the transfer of "file.txt" went to
\* file_2.txt, a chunk was written there, and the two old files are as before.
C16_Witness ==
  /\ file_info.save_path = "file_2.txt"
  /\ DOMAIN receive_dir = {"file.txt", "file_1.txt", "file_2.txt"}
  /\ receive_dir["file.txt"] = OldBytes
  /\ receive_dir["file_1.txt"] = OldBytes
  /\ receive_dir["file_2.txt"] = <<1>>

\* The handler has answered a FILE_META of this connection with its ACK.
MetaAccepted ==
  \E k \in 1..Len(lsent) :
     /\ lsent[k].message_type = MSG_ACK
     /\ WireType(lsent[k].re) = MSG_FILE_META

InOrder(i) ==
  CASE WireType(i) = MSG_HANDSHAKE -> i = 1
    [] WireType(i) = MSG_FILE_META -> i = 2 /\ WireType(1) = MSG_HANDSHAKE
    [] WireType(i) \in {MSG_CHUNK, MSG_DONE} ->
         /\ i >= 3
         /\ WireType(1) = MSG_HANDSHAKE
         /\ WireType(2) = MSG_FILE_META
         /\ \A j \in 3..(i - 1) : WireType(j) = MSG_CHUNK
    [] OTHER -> FALSE

\* C20: the listener accepts frames only in the order HANDSHAKE, FILE_META,
\* CHUNK*, DONE: a frame out of that order is not ACKed, and the handler ends
\* on it.
C20_OutOfOrderRefused ==
  \A k \in 1..Len(lsent) :
     ~InOrder(lsent[k].re) =>
        /\ lsent[k].message_type # MSG_ACK
        /\ k = Len(lsent)
        /\ lpc = "closed"

\* The handler has taken a DONE frame and written its ACK.
DoneHandled ==
  \E k \in 1..Len(lsent) :
     /\ lsent[k].message_type = MSG_ACK
     /\ WireType(lsent[k].re) = MSG_DONE

\* C19: on a DONE frame the listener closes the destination file, sends
\* ACK(success = true), invokes on_file_received(save_path, mime_type) exactly
\* once, and processes no further frame of the connection.
C19_DoneCallsBack ==
  DoneHandled =>
    /\ file_handle = "None"
    /\ Last(lsent).payload = [success |-> TRUE, message |-> "File saved"]
    /\ received = <<(<<file_info.save_path, file_info.mime_type>>)>>
    /\ lpc = "closed"

\* C15: every snapshot put on the progress queue satisfies
\* not (done = true and error non-empty).  Nothing is taken off the queue in
\* this specification, so the queue holds every snapshot ever put.
C15_DoneExcludesError ==
  \A j \in 1..Len(progress_queue) :
     ~(progress_queue[j].done /\ progress_queue[j].error # "")

\* A transfer that put a chunk snapshot and then failed: a progress snapshot
\* and an error snapshot are on the queue.
C15_Witness ==
  /\ Len(progress_queue) >= 2
  /\ \E j \in 1..Len(progress_queue) :
       progress_queue[j].error = "" /\ ~progress_queue[j].done
  /\ Last(progress_queue).error # ""
  /\ ~Last(progress_queue).done

\* A worker thread is alive.
WorkerAlive == tpc \notin {"idle", "finished"}

\* start_transfer is called in this step.
StartTransferCalled == Len(start_calls') = Len(start_calls) + 1

\* C13: at most one worker is alive at any time: start_transfer called while
\* a worker is alive spawns nothing and leaves the running transfer, the
\* cancellation flag and the progress queue unchanged; called while none is
\* alive it spawns exactly one worker and returns without waiting for it (the
\* worker is at its first statement when the call returns).
C13_OneWorker ==
  [][ StartTransferCalled =>
        IF WorkerAlive
          THEN /\ ~Last(start_calls').spawned
               /\ UNCHANGED <<tvars, lvars, nvars>>
          ELSE /\ Last(start_calls').spawned
               /\ tpc' = "connect"
               /\ sock' = "none"
               /\ progress_queue' = progress_queue
    ]_vars

\* Three calls: the first spawned a worker, the second found it alive, the
\* third came after it had ended and spawned the next one.
C13_Witness ==
  /\ Len(start_calls) = 3
  /\ start_calls[1].spawned
  /\ ~start_calls[2].spawned
  /\ start_calls[3].spawned
  /\ start_calls[3].ended
  /\ WorkerAlive

\* What get_latest_progress returned on its k-th call, and the number of
\* snapshots that had been taken off the queue when the call before returned.
DrainedBefore(k) == IF k = 1 THEN 0 ELSE returned[k - 1].drained

\* C14: get_latest_progress removes every snapshot that is in the queue and
\* returns the one enqueued last, or None when there was none to remove; no
\* snapshot is returned by two calls, and a snapshot skipped by a drain is
\* never returned later.
C14_DrainKeepsLast ==
  \A k \in 1..Len(returned) :
     LET r == returned[k]
     IN /\ r.drained >= r.enqueued
        /\ r.enqueued >= DrainedBefore(k)
        /\ IF r.drained = DrainedBefore(k)
             THEN r.value = None
             ELSE /\ r.value # None
                  /\ r.value.idx = r.drained
                  /\ \A j \in 1..(k - 1) :
                       returned[j].value # None => returned[j].value.idx < r.value.idx

\* Two polls: each returned a snapshot, the second one a terminal done
\* snapshot after skipping at least one snapshot put since the first poll.
C14_Witness ==
  /\ Len(returned) = 2
  /\ returned[1].value # None
  /\ returned[2].value # None
  /\ returned[2].value.idx >= returned[1].value.idx + 2
  /\ returned[2].value.snapshot.done

\* C17: for any interleaving of the handlers of one listener, the save path
\* of a connection is not the save path of any other connection: two
\* connections never have the same destination file.
C17_SavePathsDistinct ==
  \A c1, c2 \in Conns :
     ( /\ c1 # c2
       /\ handlers[c1].pc \in {"open", "closed"}
       /\ handlers[c2].pc \in {"open", "closed"} ) =>
         handlers[c1].save_path # handlers[c2].save_path

\* The transition table: <<state, gesture, next state>>.
TransitionTable ==
  { <<STATE_IDLE, GESTURE_OPEN_PALM, STATE_BROWSING>>,
    <<STATE_BROWSING, GESTURE_PINCH, STATE_FILE_SELECTED>>,
    <<STATE_BROWSING, GESTURE_FIST, STATE_IDLE>>,
    <<STATE_BROWSING, GESTURE_SWIPE_LEFT, STATE_BROWSING>>,
    <<STATE_BROWSING, GESTURE_SWIPE_RIGHT, STATE_BROWSING>>,
    <<STATE_FILE_SELECTED, GESTURE_OPEN_PALM, STATE_CONFIRMING_SEND>>,
    <<STATE_FILE_SELECTED, GESTURE_SWIPE_LEFT, STATE_BROWSING>>,
    <<STATE_FILE_SELECTED, GESTURE_SWIPE_RIGHT, STATE_BROWSING>>,
    <<STATE_FILE_SELECTED, GESTURE_FIST, STATE_IDLE>>,
    <<STATE_CONFIRMING_SEND, GESTURE_PINCH, STATE_SENDING>>,
    <<STATE_CONFIRMING_SEND, GESTURE_FIST, STATE_FILE_SELECTED>>,
    <<STATE_SENDING, GESTURE_FIST, STATE_FILE_SELECTED>> }

\* C30: every call of _process_transition follows the transition table and
\* leaves the state unchanged for a (state, gesture) pair the table does not
\* list; a call that enters SENDING is a Pinch in CONFIRMING_SEND.
C30_TransitionTable ==
  \A k \in 1..Len(transitions) :
     LET t == transitions[k] IN
       /\ \/ <<t.before, t.gesture, t.after>> \in TransitionTable
          \/ /\ \A row \in TransitionTable : <<row[1], row[2]>> # <<t.before, t.gesture>>
             /\ t.after = t.before
       /\ (t.after = STATE_SENDING /\ t.before # STATE_SENDING) =>
            (t.before = STATE_CONFIRMING_SEND /\ t.gesture = GESTURE_PINCH)

\* A Pinch confirmed the send and a gesture without a row left SENDING as it
\* was.
C30_Witness ==
  /\ \E k \in 1..Len(transitions) :
        transitions[k] = [before |-> STATE_CONFIRMING_SEND, gesture |-> GESTURE_PINCH,
                          after |-> STATE_SENDING]
  /\ \E k \in 1..Len(transitions) :
        transitions[k] = [before |-> STATE_SENDING, gesture |-> GESTURE_OPEN_PALM,
                          after |-> STATE_SENDING]

\* The layout of a header for message type t and payload P, byte by byte.
HeaderLayout(b, t, P) ==
  /\ Len(b) = 256
  /\ SubSeq(b, 1, 4) = <<0, 0, 222, 15>>
  /\ b[5] = 2
  /\ b[6] = t
  /\ b[7] * 16777216 + b[8] * 65536 + b[9] * 256 + b[10] = Len(P)
  /\ SubSeq(b, 11, 42) = sha256_digest(P)
  /\ \A i \in 43..256 : b[i] = 0
  /\ Cardinality(43..256) = 214

\* C27: for every message type t in 0..255 and payload P, build_header(t, P)
\* is 256 bytes laid out as magic, version, t, big-endian |P|, the digest of
\* P and 214 zero bytes, and parse_header of it returns a header with
\* message_type t and payload_length |P| whose validate_payload accepts P and
\* rejects every other payload.
C27_HeaderRoundTrip ==
  (ppc # "off" /\ call.fn = "build_header") =>
     /\ ppc = "built" => HeaderLayout(buf, call.message_type, call.payload)
     /\ ( /\ ppc \in {"parsed", "handled"}
          /\ Len(buf) = 256
          /\ HeaderLayout(buf, call.message_type, call.payload) ) =>
            /\ result # None
            /\ result.message_type = call.message_type
            /\ result.payload_length = Len(call.payload)
            /\ validate_payload_bytes(result, call.payload)
            /\ \A Q \in Payloads \ {call.payload} : ~validate_payload_bytes(result, Q)

\* The header of the largest type value and a payload longer than 255 bytes
\* was built and parsed.
C27_Witness ==
  /\ ppc = "parsed"
  /\ call.fn = "build_header"
  /\ call.message_type = 255
  /\ call.payload = LongPayload
  /\ HeaderLayout(buf, 255, LongPayload)
  /\ result # None

\* The message types the listener's dispatch has a branch for.
Dispatched == {MSG_HANDSHAKE, MSG_FILE_META, MSG_CHUNK, MSG_DONE}

\* C28: parse_header returns no header exactly when the buffer is shorter
\* than 256 bytes, or its first four bytes are not 00 00 DE 0F, or its
\* version byte is not 2; a header with valid magic and version and a
\* message type without a branch is parsed, and the listener then closes the
\* connection without a reply.
C28_ParseFailure ==
  (ppc \in {"parsed", "handled"} /\ call.fn = "build_header") =>
     /\ (result = None) <=>
          IF Len(buf) < 256 THEN TRUE
          ELSE SubSeq(buf, 1, 4) # <<0, 0, 222, 15>> \/ buf[5] # 2
     /\ ( /\ ppc = "handled"
          /\ SubSeq(buf, 1, 4) = <<0, 0, 222, 15>>
          /\ buf[5] = 2
          /\ buf[6] \notin Dispatched ) =>
            /\ result # None
            /\ result.message_type = buf[6]
            /\ outcome = [conn |-> "closed", reply |-> None, branch |-> None]

\* The listener read a header whose type byte had become 255: it was parsed
\* and the connection closed.
C28_Witness ==
  /\ ppc = "handled"
  /\ call.fn = "build_header"
  /\ call.message_type = MSG_CHUNK
  /\ buf[6] = 255
  /\ result # None
  /\ outcome # None
  /\ outcome.conn = "closed"

\* C29: parsing what a payload builder returned gives back the arguments:
\* (chunk_index, data) for a CHUNK payload, chunk_index up to the largest
\* value of the model and data possibly empty, and for the handshake,
\* file-meta, ack and error payloads a dict of exactly the fields given, with
\* their values.
C29_CodecRoundTrip ==
  (ppc = "parsed" /\ call.fn # "build_header") =>
     CASE call.fn = "build_chunk_payload" -> result = <<call.chunk_index, call.data>>
       [] call.fn = "build_handshake_payload" ->
            result = [sender_id |-> call.sender_id, encryption |-> call.encryption_enabled]
       [] call.fn = "build_file_meta_payload" ->
            result = [filename |-> call.filename, file_size |-> call.file_size,
                      mime_type |-> call.mime_type, chunk_count |-> call.chunk_count,
                      chunk_size |-> call.chunk_size]
       [] call.fn = "build_ack_payload" ->
            result = [success |-> call.success, message |-> call.message]
       [] call.fn = "build_error_payload" ->
            result = [error_code |-> call.error_code, reason |-> call.reason]
       [] call.fn = "build_done_payload" -> result = [status |-> "complete"]

\* A CHUNK payload with a four-byte index and no data was built and parsed.
C29_Witness ==
  /\ ppc = "parsed"
  /\ call.fn = "build_chunk_payload"
  /\ call.chunk_index = 16777216 + 256
  /\ call.data = <<>>
  /\ buf = <<1, 0, 1, 0>>
  /\ result = <<16777472, <<>> >>

\* The fields of a HANDSHAKE payload and of a FILE_META payload.
Required(message_type) ==
  IF message_type = MSG_HANDSHAKE THEN {"sender_id", "encryption"}
  ELSE {"filename", "file_size", "mime_type", "chunk_count", "chunk_size"}

\* Frame i written by the peer is a HANDSHAKE or FILE_META whose payload
\* lacks a field.
LacksField(i) ==
  /\ wire[i].hdr.message_type \in {MSG_HANDSHAKE, MSG_FILE_META}
  /\ ~(Required(wire[i].hdr.message_type) \subseteq DOMAIN wire[i].payload)

\* The listener has taken frame i off the connection.
Taken(i) == \A k \in 1..Len(c2s) : c2s[k].seq # i

\* C21: a HANDSHAKE or FILE_META whose payload lacks a required field is not
\* answered with an ACK, and once the listener has read it the connection is
\* closed; a payload with all its fields and one more is handled as without it.
C21_MissingFieldRefused ==
  \A i \in 1..Len(wire) :
     LacksField(i) =>
       /\ \A k \in 1..Len(lsent) :
             lsent[k].re = i => lsent[k].message_type # MSG_ACK
       /\ (lpc # "idle" /\ Taken(i)) => lpc = "closed"

\* The components of a path: a direct child of the receive directory has one,
\* and it is a name.
DirectChild(path) == Len(parts(path)) = 1 /\ parts(path)[1] \notin {"..", ".", "/"}

\* C26: every file the listener opens is a direct child of the receive
\* directory, whatever filename the FILE_META of a peer carries.
C26_InsideReceiveDir == \A path \in DOMAIN receive_dir : DirectChild(path)

\* C22: a session with encryption enabled has derived its key before it
\* encrypts a CHUNK (sender) or decrypts one (listener): no call of
\* encrypt_chunk or decrypt_chunk is made with the key still empty.
C22_KeyDerivedBeforeUse ==
  \A k \in 1..Len(crypt_calls) : crypt_calls[k]._aes_key # ""

\* The bytes of the source file that chunk frame carries when nothing
\* transforms them.
Plaintext(frame) ==
  SubSeq(file, frame.payload.chunk_index * chunk_size + 1,
         Min((frame.payload.chunk_index + 1) * chunk_size, file_size))

\* C23: the transmitter never announces encryption = true in its HANDSHAKE
\* and then sends a CHUNK whose data is the plaintext.
C23_NoPlaintextWhenAnnounced ==
  \A i, j \in 1..Len(wire) :
     ( /\ i < j
       /\ wire[i].hdr.message_type = MSG_HANDSHAKE
       /\ wire[i].payload.encryption
       /\ wire[j].hdr.message_type = MSG_CHUNK ) =>
         wire[j].payload.data # Plaintext(wire[j])

\* C25: once stop() has returned, whatever the interleaving with the accept
\* thread, the socket that thread created is closed, the thread has ended
\* and no connection waits to be accepted.
C25_StopClosesSocket ==
  stop_pc = "returned" =>
     /\ server_fd \in {"none", "closed"}
     /\ serve_pc = "done"
     /\ backlog = {}

\* C31: a gesture that update() confirms is valid in the state the engine was
\* in, was shown by at least hysteresis_frames consecutive frames up to this
\* one, was confirmed last at least its cooldown ago, and leaves every
\* hysteresis count at zero.
C31_ConfirmedAfterConsecutiveFrames ==
  (n_updates > 0 /\ last_update.confirmed # Unconfirmed) =>
     LET u == last_update
         g == u.confirmed
     IN /\ g \in _VALID_GESTURES(u.state)
        /\ streak.landmarks = g
        /\ streak.frames >= _hysteresis_threshold
        /\ u.now - u.cooldowns[g] >= _cooldown_durations(g)
        /\ \A c \in Counted : u.counts[c] = 0

\* C32: notify_transfer_complete leaves the engine in SEND_COMPLETE and
\* notify_transfer_error in FILE_SELECTED; an update() that finds the engine in
\* SEND_COMPLETE confirms nothing, calls no _process_transition, and leaves
\* the engine in IDLE if SEND_COMPLETE_RESET_DELAY has passed since the
\* notification and in SEND_COMPLETE otherwise.
C32_SendCompleteAutoReset ==
  /\ last_call = "notify_transfer_complete" => _state = STATE_SEND_COMPLETE
  /\ last_call = "notify_transfer_error" => _state = STATE_FILE_SELECTED
  /\ (n_updates > 0 /\ last_update.state = STATE_SEND_COMPLETE) =>
        LET u == last_update IN
        /\ u.confirmed = Unconfirmed
        /\ u.calls = 0
        /\ u.after = IF u.now >= u.notified + SEND_COMPLETE_RESET_DELAY
                       THEN STATE_IDLE ELSE STATE_SEND_COMPLETE

\* An update() exactly SEND_COMPLETE_RESET_DELAY after the notification, and
\* after an earlier update(), reset the engine; its frame showed an open palm.
C32_Witness ==
  /\ n_updates >= 2
  /\ last_call = "update"
  /\ last_update.state = STATE_SEND_COMPLETE
  /\ last_update.now = last_update.notified + SEND_COMPLETE_RESET_DELAY
  /\ last_update.landmarks = GESTURE_OPEN_PALM
  /\ _state = STATE_IDLE

\* C33: a snapshot that get_latest_progress returns after start_transfer
\* spawned a worker was put by that worker or a later one, not before the
\* spawn.
C33_NoSnapshotOfEarlierTransfer ==
  \A k \in 1..Len(returned), j \in 1..Len(start_calls) :
     (start_calls[j].spawned /\ start_calls[j].polls < k /\ returned[k].value # None)
        => returned[k].value.idx > start_calls[j].enqueued

\* C35: on_file_received is invoked only on a connection on which a FILE_META
\* was accepted, and the path passed is the save path of the destination file
\* that was opened for that FILE_META and has been closed.
C35_CallbackAfterAcceptedMeta ==
  \A k \in 1..Len(received) :
     /\ MetaAccepted
     /\ received[k][1] = file_info.save_path
     /\ received[k][1] \in DOMAIN receive_dir
     /\ file_handle = "None"

\* The destination files of the connection that are open: the one file_handle
\* names, and those the handler let go of that nothing has closed.
OpenFiles ==
  (IF file_handle = "open" THEN 1 ELSE 0)
    + Cardinality({k \in 1..Len(dropped) : ~dropped[k].closed})

\* C36: a connection handler has at most one destination file open at any
\* time, and once it has terminated every file it opened has been closed by
\* its own close(): none is open and none was left to deallocation.
C36_OneFileOpenAllClosed ==
  /\ OpenFiles <= 1
  /\ lpc = "closed" => (OpenFiles = 0 /\ dropped = <<>>)

\* C37: on_file_received is invoked only when the number of chunks the
\* listener wrote equals the chunk_count announced in FILE_META.
C37_CallbackWhenAllChunksWritten ==
  received # <<>> => file_info.chunks_received = file_info.chunk_count

(* ---------------- transient ACK timeouts only ---------------- *)

\* Scenario S4 and property 8: the only failures are ACK timeouts of CHUNK
\* frames, on attempts before the last one allowed.  The connection is
\* accepted, nothing is corrupted, nobody cancels, and HANDSHAKE, FILE_META and
\* DONE are answered in time.
RAckHandshake == AwaitOnce("ack_handshake", "send_meta", FALSE)

RAckFileMeta == AwaitOnce("ack_meta", "chunk_loop", FALSE)

RAckChunk == AckChunk(~LastAttempt(attempt))

RAckDone == AckDone(FALSE)

RetryNext ==
  \/ StartTransfer
  \/ TConnect
  \/ TSendHandshake
  \/ RAckHandshake
  \/ TSendFileMeta
  \/ RAckFileMeta
  \/ TChunkLoop
  \/ TSendChunk
  \/ RAckChunk
  \/ TSendDone
  \/ RAckDone
  \/ LHandle

\* The worker thread and the handler thread are both scheduled and the
\* sockets deliver: a step that can be taken is eventually taken.
SpecRetry == Init /\ [][RetryNext]_vars /\ WF_vars(RetryNext)

\* Every ACK arrives in time.
PAckChunk == AckChunk(FALSE)

\* The caller's thread, the worker and the listener; replies arrive in time,
\* the connection may be refused and the transfer cancelled.
CallerNext ==
  \/ start_transfer
  \/ Cancel
  \/ GetLatestProgress
  \/ GetNowait
  \/ ReturnLatest
  \/ TConnect
  \/ TConnectRefused
  \/ TSendHandshake
  \/ RAckHandshake
  \/ TSendFileMeta
  \/ RAckFileMeta
  \/ TChunkLoop
  \/ TSendChunk
  \/ PAckChunk
  \/ TSendDone
  \/ RAckDone
  \/ LHandle
  \/ LPeerClosed

\* One source file of one byte.
InitCaller == Start({1}, {1}, {EmptyDir})

SpecCaller == InitCaller /\ [][CallerNext]_vars

\* The same threads, every call of start_transfer logged with what preceded it.
RestartNext ==
  \/ StartTransferAfter
  \/ Cancel
  \/ GetLatestProgress
  \/ GetNowait
  \/ ReturnLatest
  \/ TConnect
  \/ TConnectRefused
  \/ TSendHandshake
  \/ RAckHandshake
  \/ TSendFileMeta
  \/ RAckFileMeta
  \/ TChunkLoop
  \/ TSendChunk
  \/ PAckChunk
  \/ TSendDone
  \/ RAckDone
  \/ LHandle
  \/ LPeerClosed

SpecRestart == InitCaller /\ [][RestartNext]_vars

\* The caller starts transfers and cancels at any time, also with no worker
\* alive; the worker and the listener run as before.
CancelNext ==
  \/ StartTransferFlagged
  \/ cancel
  \/ TConnect
  \/ TConnectRefused
  \/ TSendHandshake
  \/ RAckHandshake
  \/ TSendFileMeta
  \/ RAckFileMeta
  \/ TChunkLoop
  \/ TSendChunk
  \/ PAckChunk
  \/ TSendDone
  \/ RAckDone
  \/ LHandle
  \/ LPeerClosed

SpecCancel == InitCaller /\ [][CancelNext]_vars

(* ---------------- sender/main.py: SenderApp ---------------- *)

\* What the main loop leaves alone in the transmitter, the listener and the
\* modules that are not part of the sender.
AppFrame == UNCHANGED <<returned, dvars, pvars, evars, svars>>

\* The engine's fields apart from _state and last_call.
EngineFields == <<transitions, _hysteresis, _hysteresis_threshold, _cooldowns,
                  _send_complete_time, clock, n_updates, last_update, streak>>

\* SenderApp.run() opens the camera and enters its loop.
run ==
  /\ mpc = "off"
  /\ mpc' = "update"
  /\ UNCHANGED <<tvars, lvars, nvars, hvars, start_calls, glp, latest, drained,
                 callback_gesture, _connection_status, last_drain, gvars>>
  /\ AppFrame

\* gesture = self.gesture_engine.update(landmarks), up to the call of
\* on_gesture_confirmed.
RunUpdate ==
  /\ mpc = "update"
  /\ n_updates < MaxLoops
  /\ \E landmarks \in Landmarks, dt \in Steps : Update(landmarks, clock + dt)
  /\ callback_gesture' = last_update'.confirmed
  /\ mpc' = IF last_update'.confirmed # Unconfirmed THEN "callback" ELSE "poll"
  /\ UNCHANGED <<tvars, lvars, nvars, hvars, start_calls, glp, latest, drained,
                 _connection_status, last_drain>>
  /\ AppFrame

\* _on_gesture(gesture), with _start_transfer: file_browser.current_file is a
\* file (the source file) or None.  The model follows one connection at a
\* time, so a worker is spawned once the handler of the previous connection
\* has ended.
OnGesture ==
  /\ mpc = "callback"
  /\ mpc' = "poll"
  /\ IF callback_gesture = GESTURE_PINCH /\ _state = STATE_SENDING
       THEN \E current_file \in {"file", "None"} :
              IF current_file = "None"
                THEN /\ _state' = STATE_FILE_SELECTED
                     /\ last_call' = "notify_transfer_error"
                     /\ UNCHANGED <<tvars, lvars, nvars, hvars, start_calls,
                                    _connection_status>>
                ELSE /\ is_transferring \/ lpc # "run"
                     /\ _connection_status' = "connecting"
                     /\ start_calls' = Append(start_calls,
                                              [ended |-> tpc = "finished",
                                               spawned |-> ~is_transferring])
                     /\ SpawnUnlessTransferring
                     /\ UNCHANGED <<_state, last_call>>
     ELSE IF callback_gesture = GESTURE_FIST /\ is_transferring
       THEN /\ cancel_event' = TRUE
            /\ cancelled_alive' = TRUE
            /\ UNCHANGED <<file, config, tpc, sock, f_pos, chunk_idx, raw_data,
                           chunk_payload, attempt, bytes_sent, progress_queue>>
            /\ UNCHANGED <<lvars, nvars, hvars, start_calls, _connection_status, _state,
                           last_call>>
     ELSE UNCHANGED <<tvars, lvars, nvars, hvars, start_calls, _connection_status, _state,
                      last_call>>
  /\ UNCHANGED <<glp, latest, drained, callback_gesture, last_drain, EngineFields>>
  /\ AppFrame

\* The snapshot ends a transfer: done, or an error.
Terminal(progress) == progress.done \/ progress.error # ""

\* _poll_transfer(), up to its call of get_latest_progress.
PollTransfer ==
  /\ mpc = "poll"
  /\ IF ~is_transferring /\ _state # STATE_SENDING
       THEN /\ mpc' = "render"
            /\ UNCHANGED <<glp, latest>>
       ELSE /\ mpc' = "polling"
            /\ glp' = [pc |-> "loop", enqueued |-> drained + Len(progress_queue)]
            /\ latest' = None
  /\ UNCHANGED <<tvars, lvars, nvars, hvars, start_calls, drained, callback_gesture,
                 _connection_status, last_drain, gvars>>
  /\ AppFrame

\* get_latest_progress returns to _poll_transfer, which acts on the snapshot.
PollReturn ==
  /\ mpc = "polling"
  /\ glp.pc = "loop"
  /\ progress_queue = <<>>
  /\ glp' = [glp EXCEPT !.pc = "idle"]
  /\ last_drain' = [by |-> "_poll_transfer", value |-> latest]
  /\ mpc' = "render"
  /\ IF latest = None
       THEN UNCHANGED <<_connection_status, _state, _send_complete_time, last_call>>
     ELSE IF latest.snapshot.error # ""
       THEN /\ _connection_status' = "disconnected"
            /\ _state' = STATE_FILE_SELECTED
            /\ last_call' = "notify_transfer_error"
            /\ UNCHANGED _send_complete_time
     ELSE IF latest.snapshot.done
       THEN /\ _connection_status' = "connected"
            /\ _state' = STATE_SEND_COMPLETE
            /\ _send_complete_time' = clock
            /\ last_call' = "notify_transfer_complete"
     ELSE /\ _connection_status' = "connected"
          /\ UNCHANGED <<_state, _send_complete_time, last_call>>
  /\ UNCHANGED <<tvars, lvars, nvars, hvars, start_calls, latest, drained, callback_gesture,
                 transitions, _hysteresis, _hysteresis_threshold, _cooldowns, clock,
                 n_updates, last_update, streak>>
  /\ AppFrame

\* The overlays of run(): in SENDING the progress arc is drawn from
\* self.transmitter.get_latest_progress().
Render ==
  /\ mpc = "render"
  /\ IF _state = STATE_SENDING
       THEN /\ mpc' = "drawing"
            /\ glp' = [pc |-> "loop", enqueued |-> drained + Len(progress_queue)]
            /\ latest' = None
       ELSE /\ mpc' = "update"
            /\ UNCHANGED <<glp, latest>>
  /\ UNCHANGED <<tvars, lvars, nvars, hvars, start_calls, drained, callback_gesture,
                 _connection_status, last_drain, gvars>>
  /\ AppFrame

\* get_latest_progress returns to run(), which draws progress.fraction.
RenderReturn ==
  /\ mpc = "drawing"
  /\ glp.pc = "loop"
  /\ progress_queue = <<>>
  /\ glp' = [glp EXCEPT !.pc = "idle"]
  /\ last_drain' = [by |-> "run", value |-> latest]
  /\ mpc' = "update"
  /\ UNCHANGED <<tvars, lvars, nvars, hvars, start_calls, latest, drained, callback_gesture,
                 _connection_status, gvars>>
  /\ AppFrame

\* The main loop, the worker it spawns and the listener; replies arrive in
\* time and the connection may be refused.
AppNext ==
  \/ run
  \/ RunUpdate
  \/ OnGesture
  \/ PollTransfer
  \/ GetNowait
  \/ PollReturn
  \/ Render
  \/ RenderReturn
  \/ TConnect
  \/ TConnectRefused
  \/ TSendHandshake
  \/ RAckHandshake
  \/ TSendFileMeta
  \/ RAckFileMeta
  \/ TChunkLoop
  \/ TSendChunk
  \/ PAckChunk
  \/ TSendDone
  \/ RAckDone
  \/ LHandle
  \/ LPeerClosed

\* SenderConfig(hysteresis_frames=1) and a source file of one byte.
InitApp ==
  /\ Base({1}, {1}, {EmptyDir}, {FALSE})
  /\ Sessions({FALSE}, {TRUE})
  /\ Serving
  /\ Engine({1})
  /\ NoCall

SpecApp == InitApp /\ [][AppNext]_vars

\* C34: a snapshot that ends a transfer is never taken off the queue by the
\* call of get_latest_progress that only draws the progress arc: it reaches
\* _poll_transfer, which moves the engine out of SENDING.
C34_TerminalSnapshotReachesPoll ==
  (last_drain # None /\ last_drain.by = "run" /\ last_drain.value # None)
     => ~Terminal(last_drain.value.snapshot)

\* The positions of the queue that hold a terminal snapshot.
TerminalSnapshots ==
  {j \in 1..Len(progress_queue) : Terminal(progress_queue[j])}

\* C38: a transfer worker puts exactly one terminal snapshot (done = true or
\* a non-empty error) on the progress queue, and it is the last snapshot the
\* worker puts: while the worker runs the queue holds no terminal snapshot,
\* and once it has ended the only terminal snapshot is the last element.
\* Nothing is taken off the queue in this specification.
C38_OneTerminalSnapshotLast ==
  /\ tpc = "finished" => TerminalSnapshots = {Len(progress_queue)}
  /\ tpc # "finished" => TerminalSnapshots = {}

\* A two-chunk transfer that succeeded: two chunk snapshots, then done.
C38_Witness ==
  /\ tpc = "finished"
  /\ Len(progress_queue) = 3
  /\ progress_queue[1].chunks_sent = 1
  /\ progress_queue[2].chunks_sent = 2
  /\ progress_queue[3].done
  /\ progress_queue[3].error = ""

\* C39: a snapshot with done = true is put only after the transmitter has
\* received the ACK(success = true) that answers its DONE frame, and by then
\* the listener has closed the destination file of the connection.
C39_DoneAfterAckOfDone ==
  ReportedDone =>
    /\ last_ack_re = Len(wire)
    /\ WireType(last_ack_re) = MSG_DONE
    /\ DoneHandled
    /\ file_handle = "None"

\* C40: a cancel() issued while no worker is alive never aborts the transfer
\* spawned by a later start_transfer.  Whenever a worker is alive with the
\* cancellation flag set, and whenever a worker has ended with "Cancelled by
\* user", cancel() was called while that very worker was alive: start_transfer
\* clears the flag before the worker starts.
C40_IdleCancelSparesNextTransfer ==
  /\ (is_transferring /\ cancel_event) => cancelled_alive
  /\ (/\ tpc = "finished"
      /\ progress_queue # <<>>
      /\ Last(progress_queue).error = "Cancelled by user") => cancelled_alive

\* cancel() was called before the first start_transfer and again before the
\* second, which was made after the first worker had ended: both calls of
\* start_transfer found the flag set, both files were delivered, and the
\* second worker reported done.
C40_Witness ==
  /\ Len(start_calls) = 2
  /\ start_calls[1].spawned /\ start_calls[1].flag
  /\ start_calls[2].spawned /\ start_calls[2].flag /\ start_calls[2].ended
  /\ tpc = "finished"
  /\ ~cancel_event
  /\ Last(progress_queue).done
  /\ Len(received) = 2

\* Chunk c was ACKed on its second or third attempt.
AckedOnRetry(c) ==
  \E k \in 1..Len(attempts) :
     attempts[k].chunk_index = c /\ attempts[k].attempt >= 1 /\ attempts[k].exc = ""

\* The snapshots put after a chunk was ACKed.
ChunkSnapshots(c) ==
  {j \in 1..Len(progress_queue) :
     /\ ~progress_queue[j].done
     /\ progress_queue[j].error = ""
     /\ progress_queue[j].chunks_sent = c + 1}

C5_OneWritePerAttemptOneSnapshot ==
  \A c \in Chunks :
     AckedOnRetry(c) =>
       /\ Cardinality(ChunkWrites(c)) = Cardinality(ChunkAttempts(c))
       /\ \A k \in ChunkAttempts(c) :
            Cardinality(ChunkWrites(c)) >= attempts[k].attempt + 1
       \* exactly one snapshot for the chunk, one more than the one before it
       /\ ChunkSnapshots(c) = {c + 1}
       /\ c >= 1 => progress_queue[c].chunks_sent = c

WireTypes == [i \in 1..Len(wire) |-> wire[i].hdr.message_type]

IsPrefix(p, q) == Len(p) <= Len(q) /\ SubSeq(q, 1, Len(p)) = p

\* What holds at every moment of the transfer of an empty file.
EmptyFileTransfer ==
  /\ \/ IsPrefix(WireTypes, <<MSG_HANDSHAKE, MSG_FILE_META, MSG_DONE>>)
     \/ IsPrefix(WireTypes, <<MSG_HANDSHAKE, MSG_FILE_META, MSG_CHUNK, MSG_DONE>>)
  /\ \A i \in 1..Len(wire) :
        /\ wire[i].hdr.message_type = MSG_FILE_META =>
             (wire[i].payload.chunk_count = 1 /\ wire[i].payload.file_size = 0)
        /\ wire[i].hdr.message_type = MSG_CHUNK =>
             (wire[i].payload.chunk_index = 0 /\ wire[i].payload.data = <<>>)
  /\ tpc = "finished" =>
        /\ ReportedDone
        /\ "file.txt" \in DOMAIN receive_dir
        /\ receive_dir["file.txt"] = <<>>
        /\ received = << <<"file.txt", "text/plain">> >>

\* C24: for a source file of length 0 the transmitter sends FILE_META with
\* chunk_count = 1, then one CHUNK with index 0 and no data or no CHUNK at
\* all, then DONE, and ends with done = true; the destination file then
\* exists with length 0 and on_file_received was invoked once.
C24_EmptyFile ==
  /\ [](file = <<>> => EmptyFileTransfer)
  /\ (file = <<>>) ~> (file = <<>> /\ ReportedDone)

\* The transfer of an empty file ended: three frames, one callback.
C24_Witness ==
  /\ file = <<>>
  /\ ReportedDone
  /\ WireTypes = <<MSG_HANDSHAKE, MSG_FILE_META, MSG_DONE>>
  /\ receive_dir = [f \in {"file.txt"} |-> <<>>]
  /\ Len(received) = 1

====
